---- MODULE Spec2Model ----
(***************************************************************************)
(* Verification model of the WhatsApp bot of the PMPR repository: the      *)
(* answer pipeline of app.py (AutoRAG, local RAG gate, citation            *)
(* validator, delivery), the message-id dedup of bot.py, and the TopK      *)
(* search clients (topk_client.py, llm_client.py).                         *)
(*                                                                         *)
(* Text is modelled character by character: a Python str is a tuple of     *)
(* one-character strings.  A character outside ASCII is written as an      *)
(* ASCII digraph that stands for that single character ("a~" is a with     *)
(* tilde, "u'" is u with acute, "c," is c with cedilla, "..." is the       *)
(* horizontal ellipsis U+2026, "(o)" is the bullet U+2022).  Scores and    *)
(* thresholds are hundredths (0.28 is 28).                                 *)
(***************************************************************************)
EXTENDS Integers, Sequences, FiniteSets, TLC

VARIABLES
  \* ---- app.py: one run of handle_incoming_message ----
  cfg,          \* the environment configuration read at import (app.py:35-59)
  pc,           \* position of the handler
  msg,          \* the incoming message
  ctx,          \* where ask_ai_with_context was called from (app.py:544/565/571)
  retrieved,    \* every excerpt retrieved so far, with its origin and score
  accepted,     \* excerpts that passed the threshold and go to the model
  gate,         \* outcome of the similarity gate of ask_ai_with_context
  rejectAt,     \* length of the call log when the gate rejected, -1 before
  model_out,    \* the stripped text of the last completion that returned
  ai_answer,    \* the text returned by answer_with_autorag
  producer,     \* which return statement produced ai_answer
  calls,        \* log of the external calls made, in order
  sent,         \* the bodies handed to send_text that were accepted
  raised,       \* an exception reached the handler's catch-all
  \* ---- bot.py: message-id dedup of the webhook ----
  recent_ids_q,    \* deque(maxlen=_MAX_IDS)
  recent_ids_set,  \* set()
  processed,       \* how many times each id went through steps 1)-5)
  next_id,         \* the next message id never delivered before
  last_resp,       \* the JSON answer of the last webhook call
  failed,          \* the ids, of those the model tracks, whose processing raised
  \* ---- _dedupe as a pure function ----
  d_in,         \* the input hit list
  d_out,        \* _dedupe(d_in), both variants
  d_twice,      \* _dedupe(_dedupe(d_in)), both variants
  d_pc,
  \* -- the pure functions and the other subsystems --
  \* ---- app.py: the similarity thresholds as a pure function ----
  t_hits,   \* the retrieved hits, with their scores
  t_lo,   \* the lower threshold t1
  t_hi,   \* the higher threshold t2
  t_acc,   \* the hits accepted under each threshold, by each filter
  t_pc,
  \* ---- memory.py: RedisMemory, and pmpr-bot-wa/memory.py: Memory ----
  m_max,   \* MAX_MSGS / max_msgs
  m_redis,   \* the Redis list of the key mem:<user>, by user: newest first
  m_data,   \* Memory._data, by user: a deque, oldest first
  m_added,   \* the messages passed to the add operations, by user, in order
  m_got,   \* what the last get_context returned, and for whom
  m_pc,
  \* ---- utils/prompt.py: build_prompt, and app.py: the system prompt of ask_ai_with_context ----
  p_query,   \* user_query / user_text
  p_history,   \* history: a list of texts
  p_items,   \* passages / relevant
  p_hist_block,   \* hist_block
  p_context,   \* context_block / context
  p_prompt,   \* prompt / system
  p_pc,
  \* ---- synonyms.py: expand_query ----
  y_table,   \* SYNONYMS
  y_query,   \* query
  y_extras,   \* extras, after _dedup_keep_order
  y_out,   \* the value returned
  y_pc,
  \* ---- bot.py: enviar_whatsapp ----
  w_ok,   \* WABA_TOKEN and phone_id and to and text is not None
  w_max_retries,   \* max_retries
  w_attempt,   \* attempt
  w_log,   \* the answers to the POSTs made, each with the wait that followed
  w_result,   \* the value returned
  w_pc,
  \* ---- app.py: send_text_chunks, and the sending loop of bot.py's webhook ----
  k_who,   \* which of the two loops
  k_body,   \* body / resposta
  k_j,   \* the number of the fragment the loop is at
  k_handed,   \* the fragments handed to send_text / enviar_whatsapp, in order
  k_ok_all,   \* ok_all
  k_pc,
  \* ---- topk_client.py and llm_client.py: the score of _normalize_item ----
  n_item,   \* item: the score keys of the raw record
  n_score,   \* the "score" of the normalized hit, for each client
  n_pc,
  \* ---- app.py: compact_whatsapp on long texts ----
  c_text,   \* text: the answer to compact
  c_out,   \* the text compact_whatsapp returns
  c_pc,
  \* ---- dedup.py and memory.py: Dedup.seen on Redis ----
  r_impl,   \* which class Dedup: of dedup.py or of memory.py
  r_ttl,   \* self.ttl
  r_keys,   \* the keys of Redis: present or not, and the seconds left to live (-1: no TTL)
  r_expired,   \* how many times each key has gone
  r_call,   \* the concurrent calls of seen: argument, position, result
  \* ---- topk_client.py: search_topk_multi / llm_client.py: search_topk ----
  s_query,      \* the query
  s_k,          \* the k argument
  s_backend,    \* what each strategy of each collection answers
  s_idx,        \* index of the collection the loop is at
  s_output,     \* the mapping being built (a set of name/hits pairs)
  s_trace,      \* strategies run, per collection, in order
  s_calls,      \* the queries sent to the service, with what it answered
  s_pc

appVars    == <<cfg, pc, msg, ctx, retrieved, accepted, gate, rejectAt, model_out,
                ai_answer, producer, calls, sent, raised>>
botVars    == <<recent_ids_q, recent_ids_set, processed, next_id, last_resp, failed>>
dedupeVars == <<d_in, d_out, d_twice, d_pc>>
searchVars == <<s_query, s_k, s_backend, s_idx, s_output, s_trace, s_calls, s_pc>>
\* the variable groups of the other subsystems
thrVars == <<t_hits, t_lo, t_hi, t_acc, t_pc>>
memVars == <<m_max, m_redis, m_data, m_added, m_got, m_pc>>
prmVars == <<p_query, p_history, p_items, p_hist_block, p_context, p_prompt, p_pc>>
synVars == <<y_table, y_query, y_extras, y_out, y_pc>>
sendVars == <<w_ok, w_max_retries, w_attempt, w_log, w_result, w_pc>>
chkVars == <<k_who, k_body, k_j, k_handed, k_ok_all, k_pc>>
nrmVars == <<n_item, n_score, n_pc>>
cmpVars == <<c_text, c_out, c_pc>>
rddVars == <<r_impl, r_ttl, r_keys, r_expired, r_call>>
restVars == <<thrVars, memVars, prmVars, synVars, sendVars, chkVars, nrmVars, cmpVars, rddVars>>

rest_idle == UNCHANGED restVars

thr_frame == UNCHANGED <<appVars, botVars, dedupeVars, searchVars, memVars, prmVars, synVars, sendVars, chkVars, nrmVars, cmpVars, rddVars>>
mem_frame == UNCHANGED <<appVars, botVars, dedupeVars, searchVars, thrVars, prmVars, synVars, sendVars, chkVars, nrmVars, cmpVars, rddVars>>
prm_frame == UNCHANGED <<appVars, botVars, dedupeVars, searchVars, thrVars, memVars, synVars, sendVars, chkVars, nrmVars, cmpVars, rddVars>>
syn_frame == UNCHANGED <<appVars, botVars, dedupeVars, searchVars, thrVars, memVars, prmVars, sendVars, chkVars, nrmVars, cmpVars, rddVars>>
send_frame == UNCHANGED <<appVars, botVars, dedupeVars, searchVars, thrVars, memVars, prmVars, synVars, chkVars, nrmVars, cmpVars, rddVars>>
chk_frame == UNCHANGED <<appVars, botVars, dedupeVars, searchVars, thrVars, memVars, prmVars, synVars, sendVars, nrmVars, cmpVars, rddVars>>
nrm_frame == UNCHANGED <<appVars, botVars, dedupeVars, searchVars, thrVars, memVars, prmVars, synVars, sendVars, chkVars, cmpVars, rddVars>>
cmp_frame == UNCHANGED <<appVars, botVars, dedupeVars, searchVars, thrVars, memVars, prmVars, synVars, sendVars, chkVars, nrmVars, rddVars>>
rdd_frame == UNCHANGED <<appVars, botVars, dedupeVars, searchVars, thrVars, memVars, prmVars, synVars, sendVars, chkVars, nrmVars, cmpVars>>

ThrIdle ==
  /\ t_hits = <<>>
  /\ t_lo = 0
  /\ t_hi = 0
  /\ t_acc = <<>>
  /\ t_pc = "off"

MemIdle ==
  /\ m_max = 0
  /\ m_redis = <<>>
  /\ m_data = <<>>
  /\ m_added = <<>>
  /\ m_got = <<>>
  /\ m_pc = "off"

PrmIdle ==
  /\ p_query = <<>>
  /\ p_history = <<>>
  /\ p_items = <<>>
  /\ p_hist_block = <<>>
  /\ p_context = <<>>
  /\ p_prompt = <<>>
  /\ p_pc = "off"

SynIdle ==
  /\ y_table = <<>>
  /\ y_query = <<>>
  /\ y_extras = <<>>
  /\ y_out = <<>>
  /\ y_pc = "off"

SendIdle ==
  /\ w_ok = FALSE
  /\ w_max_retries = 0
  /\ w_attempt = 0
  /\ w_log = <<>>
  /\ w_result = "none"
  /\ w_pc = "off"

ChkIdle ==
  /\ k_who = "none"
  /\ k_body = <<>>
  /\ k_j = 0
  /\ k_handed = <<>>
  /\ k_ok_all = TRUE
  /\ k_pc = "off"

NrmIdle ==
  /\ n_item = <<>>
  /\ n_score = <<>>
  /\ n_pc = "off"

CmpIdle ==
  /\ c_text = <<>>
  /\ c_out = <<>>
  /\ c_pc = "off"

RddIdle ==
  /\ r_impl = "off"
  /\ r_ttl = 0
  /\ r_keys = <<>>
  /\ r_expired = <<>>
  /\ r_call = <<>>

RestIdle == ThrIdle /\ MemIdle /\ PrmIdle /\ SynIdle /\ SendIdle /\ ChkIdle /\ NrmIdle /\ CmpIdle /\ RddIdle
\* end of the variable groups
vars       == <<appVars, botVars, dedupeVars, searchVars, restVars>>

-----------------------------------------------------------------------------
(* Python str operations, on tuples of characters                          *)

IsSpace(c) == c \in {" ", "\n", "\t"}
IsDigit(c) == c \in {"0", "1", "2", "3", "4", "5", "6", "7", "8", "9"}

\* str.lstrip(), str.rstrip(), str.strip()
LStrip(s) ==
  IF \A i \in 1..Len(s) : IsSpace(s[i]) THEN <<>>
  ELSE SubSeq(s, CHOOSE i \in 1..Len(s) :
                   ~IsSpace(s[i]) /\ \A j \in 1..(i - 1) : IsSpace(s[j]),
              Len(s))

RStrip(s) ==
  IF \A i \in 1..Len(s) : IsSpace(s[i]) THEN <<>>
  ELSE SubSeq(s, 1, CHOOSE i \in 1..Len(s) :
                      ~IsSpace(s[i]) /\ \A j \in (i + 1)..Len(s) : IsSpace(s[j]))

Strip(s) == RStrip(LStrip(s))

\* sub in s
Contains(sub, s) ==
  \E i \in 0..(Len(s) - Len(sub)) : SubSeq(s, i + 1, i + Len(sub)) = sub

\* "".join(parts)
RECURSIVE Flatten(_)
Flatten(parts) == IF parts = <<>> THEN <<>> ELSE Head(parts) \o Flatten(Tail(parts))

\* sep.join(parts)
RECURSIVE Join(_, _)
Join(sep, parts) ==
  IF parts = <<>> THEN <<>>
  ELSE IF Len(parts) = 1 THEN parts[1]
  ELSE parts[1] \o sep \o Join(sep, Tail(parts))

\* _CITATION_PATTERN.search(s): re.compile(r"\[\d+\]")
CitationSearch(s) ==
  \E i \in 1..Len(s) :
     /\ s[i] = "["
     /\ \E j \in (i + 2)..Len(s) :
          /\ s[j] = "]"
          /\ \A n \in (i + 1)..(j - 1) : IsDigit(s[n])

-----------------------------------------------------------------------------
(* The fixed texts of app.py and bot.py                                    *)

\* app.py:630  the literal the validator looks for
REFUSAL_PHRASE ==
  <<"N","a~","o"," ","e","n","c","o","n","t","r","e","i"," ","i","s","s","o"," ","n","o",
    "s"," ","d","o","c","u","m","e","n","t","o","s">>

\* app.py:631
MSG_REFUSAL ==
  <<"N","a~","o"," ","e","n","c","o","n","t","r","e","i"," ","i","s","s","o"," ","n","o",
    "s"," ","d","o","c","u","m","e","n","t","o","s",".">>

\* app.py:595
MSG_STRICT_REFUSAL ==
  <<"N","a~","o"," ","e","n","c","o","n","t","r","e","i"," ","i","s","s","o"," ","n","o",
    "s"," ","d","o","c","u","m","e","n","t","o","s","."," ","E","n","v","i","e"," ","o"," ",
    "n","u'","m","e","r","o","/","t","e","r","m","o"," ","d","o"," ","a","t","o"," ","(",
    "e","x",".",":"," ","p","o","r","t","a","r","i","a",","," ","a","r","t","i","g","o",")",
    " ","p","a","r","a"," ","e","u"," ","l","o","c","a","l","i","z","a","r",".">>

\* app.py:212, app.py:581
MSG_NO_KEY ==
  <<"A"," ","I","A"," ","n","a~","o"," ","e","s","t","a'"," ","c","o","n","f","i","g","u",
    "r","a","d","a"," ","(","O","P","E","N","A","I","_","A","P","I","_","K","E","Y"," ","a",
    "u","s","e","n","t","e",")",".">>

\* app.py:226
MSG_AI_ERROR ==
  <<"N","a~","o"," ","c","o","n","s","e","g","u","i"," ","c","o","n","s","u","l","t","a",
    "r"," ","a"," ","I","A"," ","n","o"," ","m","o","m","e","n","t","o","."," ","T","e","n",
    "t","e"," ","n","o","v","a","m","e","n","t","e"," ","e","m"," ","i","n","s","t","a","n",
    "t","e","s",".">>

\* app.py:635
MSG_RAG_ERROR ==
  <<"N","a~","o"," ","c","o","n","s","e","g","u","i"," ","c","o","n","s","u","l","t","a",
    "r"," ","a"," ","I","A"," ","a","g","o","r","a","."," ","T","e","n","t","e"," ","n","o",
    "v","a","m","e","n","t","e"," ","e","m"," ","i","n","s","t","a","n","t","e","s",".">>

\* app.py:550
MSG_AUTORAG_NOT_FOUND ==
  <<"N","a~","o"," ","e","n","c","o","n","t","r","e","i"," ","e","s","s","a"," ","i","n",
    "f","o","r","m","a","c,","a~","o"," ","n","o","s"," ","d","o","c","u","m","e","n","t",
    "o","s"," ","i","n","d","e","x","a","d","o","s",".">>

\* app.py:486
MSG_GEN_NO_KEY ==
  <<"C","o","n","f","i","g","u","r","a","c,","a~","o"," ","a","u","s","e","n","t","e",":",
    " ","O","P","E","N","A","I","_","A","P","I","_","K","E","Y",".">>

\* app.py:533
MSG_GEN_FAIL ==
  <<"F","a","l","h","a"," ","a","o"," ","g","e","r","a","r"," ","r","e","s","p","o","s","t",
    "a"," ","c","o","m"," ","O","p","e","n","A","I",".">>

\* app.py:529
FONTES_HEADER ==
  <<"\n","\n","F","O","N","T","E","S",":","\n">>

\* app.py:757
MSG_EMPTY_TEXT ==
  <<"M","e","n","s","a","g","e","m"," ","v","a","z","i","a","."," ","P","o","d","e"," ","r",
    "e","p","e","t","i","r","?">>

\* app.py:784
MSG_OTHER_TYPE ==
  <<"R","e","c","e","b","i"," ","s","e","u"," ","c","o","n","t","e","u'","d","o","."," ",
    "P","o","d","e"," ","e","s","c","r","e","v","e","r"," ","s","u","a"," ","d","u'","v",
    "i","d","a"," ","e","m"," ","t","e","x","t","o","?">>

\* bot.py:288
MSG_BOT_EMPTY ==
  <<"N","a~","o"," ","c","o","n","s","e","g","u","i"," ","g","e","r","a","r"," ","u","m",
    "a"," ","r","e","s","p","o","s","t","a"," ","a","g","o","r","a","."," ","P","o","d","e",
    " ","t","e","n","t","a","r"," ","r","e","f","o","r","m","u","l","a","r"," ","a"," ","p",
    "e","r","g","u","n","t","a","?">>

\* app.py:781-782, with the default title
MSG_INTERACTIVE ==
  <<"V","o","c","e^"," ","s","e","l","e","c","i","o","n","o","u",":"," ","o","p","c,","a~",
    "o","."," ","D","e","s","c","r","e","v","a"," ","s","u","a"," ","d","u'","v","i","d",
    "a"," ","e","m"," ","t","e","x","t","o",","," ","p","o","r"," ","f","a","v","o","r",".">>

-----------------------------------------------------------------------------
(* app.py: compaction and chunked sending                                  *)

HARD_LIMIT      == 900
TEXT_MAX_LINES  == 8
LIST_MAX_LINES  == 60
LIST_MAX_CHARS  == 3000
APP_CHUNK_SIZE  == 1200

\* re.sub(r'\n{3,}', '\n\n', t): of a run of newlines the first two stay
CollapseNewlines(s) ==
  LET keep == SelectSeq([i \in 1..Len(s) |-> i],
                        LAMBDA i : ~(i >= 3 /\ s[i] = "\n" /\ s[i - 1] = "\n"
                                            /\ s[i - 2] = "\n"))
  IN  [n \in 1..Len(keep) |-> s[keep[n]]]

\* one alternative of (?:\d+\.\s+|(o)\s+|-\s+|\*\s+) matches at position q
BulletAt(s, q) ==
  \/ /\ IsDigit(s[q])
     /\ \E e \in q..(Len(s) - 2) :
          /\ s[e + 1] = "."
          /\ IsSpace(s[e + 2])
          /\ \A n \in q..e : IsDigit(s[n])
  \/ /\ s[q] \in {"(o)", "-", "*"}
     /\ q + 1 <= Len(s)
     /\ IsSpace(s[q + 1])

\* _looks_like_list: re.search(r'^\s*(?:...)', text, flags=re.M): a bullet
\* that only white space separates from the start of a line
looks_like_list(s) ==
  \E q \in 1..Len(s) :
     /\ BulletAt(s, q)
     /\ \E p \in 1..q :
          /\ (p = 1 \/ s[p - 1] = "\n")
          /\ \A n \in p..(q - 1) : IsSpace(s[n])

\* str.splitlines(), "\n" being the only line break of the alphabet: the text
\* between the breaks, and no empty last line after a final break
SplitLines(s) ==
  LET nl == SelectSeq([i \in 1..Len(s) |-> i], LAMBDA i : s[i] = "\n")
      n  == IF s = <<>> THEN 0
            ELSE IF s[Len(s)] = "\n" THEN Len(nl) ELSE Len(nl) + 1
  IN  [k \in 1..n |->
         SubSeq(s, IF k = 1 THEN 1 ELSE nl[k - 1] + 1,
                   IF k <= Len(nl) THEN nl[k] - 1 ELSE Len(s))]

\* mutant: the lines are limited, the characters are not
compact_whatsapp_NoCharLimit(text) ==
  IF text = <<>> THEN text
  ELSE LET t1        == CollapseNewlines(Strip(text))
           max_lines == IF looks_like_list(t1) THEN LIST_MAX_LINES ELSE TEXT_MAX_LINES
           lines0    == SplitLines(t1)
       IN  Join(<<"\n">>, SubSeq(lines0, 1, IF Len(lines0) > max_lines THEN max_lines ELSE Len(lines0)))

compact_whatsapp(text) ==
  IF text = <<>> THEN text
  ELSE LET t1        == CollapseNewlines(Strip(text))
           is_list   == looks_like_list(t1)
           max_lines == IF is_list THEN LIST_MAX_LINES ELSE TEXT_MAX_LINES
           max_chars == IF is_list THEN LIST_MAX_CHARS ELSE HARD_LIMIT
           lines0    == SplitLines(t1)
           lines     == IF Len(lines0) > max_lines
                        THEN SubSeq(lines0, 1, max_lines) \o << <<"...">> >>
                        ELSE lines0
           t2        == Join(<<"\n">>, lines)
       IN  IF Len(t2) > max_chars
           THEN RStrip(SubSeq(t2, 1, max_chars - 1)) \o <<"...">>
           ELSE t2

Min(a, b) == IF a <= b THEN a ELSE b

\* mutant: each fragment starts one character early
Chunks_Overlap(body, chunk_size) ==
  [i \in 1..((Len(body) + chunk_size - 1) \div chunk_size) |->
     SubSeq(body, IF i = 1 THEN 1 ELSE (i - 1) * chunk_size,
                  Min(i * chunk_size, Len(body)))]

\* the bodies send_text_chunks hands to send_text: body[i:i+chunk_size]
Chunks(body, chunk_size) ==
  [i \in 1..((Len(body) + chunk_size - 1) \div chunk_size) |->
     SubSeq(body, (i - 1) * chunk_size + 1, Min(i * chunk_size, Len(body)))]

-----------------------------------------------------------------------------
(* app.py: configuration and the answers of the external services          *)

RAG_MIN_SIM                 == 28
CF_AUTORAG_SEARCH_THRESHOLD == 22
RETRIEVE_K                  == 5
GEN_MAX_SNIPPETS            == 8

\* bounds of the model
MaxLocalHits == 2
MaxAutoragItems == 2

\* OPENAI_API_KEY set or not, RAG_STRICT, CF_AUTORAG_BASE and CF_AUTORAG_TOKEN
\* set or not, CF_AUTORAG_MODE, CF_AUTORAG_SEARCH_THRESHOLD (default, or 0)
Configs ==
  {c \in [key : BOOLEAN, strict : BOOLEAN, autorag : BOOLEAN,
          mode : {"search", "ai-search"}, thr : {0, CF_AUTORAG_SEARCH_THRESHOLD}] :
     ~c.autorag => (c.mode = "search" /\ c.thr = CF_AUTORAG_SEARCH_THRESHOLD)}

ScoreValues == {-5, 10, RAG_MIN_SIM, 50}

\* retrieve(): the top chunks, sorted by descending score (app.py:373-374)
LocalHitLists ==
  {h \in UNION {[1..n -> ScoreValues] : n \in 0..MaxLocalHits} :
     /\ Len(h) <= RETRIEVE_K
     /\ \A i \in 1..(Len(h) - 1) : h[i] >= h[i + 1]}

\* one entry of res["results"] of the AutoRAG search endpoint:
\* text is content/page_content/text, score is "num", "missing" or "null",
\* src is folder + key
AutoragItems ==
  { [text |-> <<"t">>, sk |-> "num",     score |-> 50, src |-> <<"p", "/", "f">>],
    [text |-> <<"t">>, sk |-> "num",     score |-> 10, src |-> <<"p", "/", "g">>],
    [text |-> <<"t">>, sk |-> "num",     score |-> -5, src |-> <<>>],
    [text |-> <<"t">>, sk |-> "num",     score |-> CF_AUTORAG_SEARCH_THRESHOLD,
                                                        src |-> <<" ">>],
    [text |-> <<"t">>, sk |-> "null",    score |-> 0,  src |-> <<"p", "/", "f">>],
    [text |-> <<"t">>, sk |-> "missing", score |-> 0,  src |-> <<"p", "/", "f">>],
    [text |-> <<>>,    sk |-> "num",     score |-> 50, src |-> <<"p", "/", "f">>] }

AutoragResults == UNION {[1..n -> AutoragItems] : n \in 0..MaxAutoragItems}

\* message.content of a chat completion
ModelTexts ==
  { <<>>,
    <<" ">>,
    <<"o", "k">>,
    <<"o", "k", " ", "[", "1", "]">>,
    <<" ", "o", "k", " ", "[", "1", "2", "]", "\n">>,
    <<"o", "k", " ", "[", "2", "]">>,
    <<"o", "k", " ", "[", "x", "]">>,
    MSG_REFUSAL,
    <<"o", "k", ".", " ">> \o REFUSAL_PHRASE \o <<",", " ", "o", "k">> }

\* a chat completion raises, returns content None, or returns a text
Completions ==
  {[kind |-> "raise", text |-> <<>>], [kind |-> "none", text |-> <<>>]}
    \cup {[kind |-> "text", text |-> t] : t \in ModelTexts}

\* res.get("response") of the AutoRAG ai-search endpoint, or the call raises
AiSearchAnswers ==
  {[kind |-> "raise", text |-> <<>>], [kind |-> "none", text |-> <<>>]}
    \cup {[kind |-> "text", text |-> t] :
            t \in {<<>>, <<" ">>, <<"o", "k">>, <<"o", "k", " ", "[", "1", "]">>}}

\* the incoming messages: type, text.body
Messages ==
  {[type |-> "text", body |-> b] : b \in {<<>>, <<" ">>, <<" ", "q", " ">>}}
    \cup {[type |-> "interactive", body |-> <<>>], [type |-> "image", body |-> <<>>]}

NoMsg == [type |-> "none", body |-> <<>>]

-----------------------------------------------------------------------------
(* app.py: autorag_search, generate_with_openai, ask_ai_with_context       *)

\* autorag_search, app.py:445-452: the entries with a text and a score that
\* is not None become snippets; a missing score counts as 0.0
Snippets(items) ==
  LET usable == SelectSeq(items, LAMBDA it : it.text # <<>> /\ it.sk # "null")
  IN  [i \in 1..Len(usable) |->
         [origin |-> "autorag", text |-> Strip(usable[i].text),
          score |-> usable[i].score, src |-> usable[i].src]]

\* autorag_search, app.py:453-454: a threshold of 0 is falsy and filters nothing
ThresholdFilter(snippets, threshold) ==
  IF threshold # 0 /\ snippets # <<>>
  THEN SelectSeq(snippets, LAMBDA s : s.score >= threshold)
  ELSE snippets

\* mutant: the threshold comparison is dropped
Relevant_NoThreshold(snippets) == snippets

\* ask_ai_with_context, app.py:584
Relevant(snippets) == SelectSeq(snippets, LAMBDA s : s["score"] >= RAG_MIN_SIM)

\* mutant: the RAG_STRICT test is inverted
NoBasis_Inverted(strict) == IF strict THEN "ask_ai" ELSE "refuse"

\* mutant: RAG_STRICT is ignored and the ungrounded fallback always runs
NoBasis_AlwaysFallback(strict) == "ask_ai"

\* ask_ai_with_context, app.py:593-596: what an empty relevant list leads to
NoBasis(strict) == IF strict THEN "refuse" ELSE "ask_ai"

\* mutant: the citation check is skipped
Validate_NoCheck(answer) == answer

\* ask_ai_with_context, app.py:630-632
Validate(answer) ==
  IF ~CitationSearch(answer) /\ ~Contains(REFUSAL_PHRASE, answer)
  THEN MSG_REFUSAL
  ELSE answer

DigitChars == <<"1", "2", "3", "4", "5", "6", "7", "8">>

\* generate_with_openai, app.py:489-494: "[i] folder+key" of each of the first
\* eight snippets whose source name is not blank
Fontes(snippets) ==
  LET first == SubSeq(snippets, 1, Min(Len(snippets), GEN_MAX_SNIPPETS))
      idx   == SelectSeq([i \in 1..Len(first) |-> i],
                         LAMBDA i : Strip(first[i].src) # <<>>)
  IN  [n \in 1..Len(idx) |->
         <<"[", DigitChars[idx[n]], "]", " ">> \o first[idx[n]].src]

\* generate_with_openai, app.py:528-530
AppendSources(text, fontes) ==
  IF fontes # <<>> /\ ~Contains(<<"[", "1", "]">>, text)
  THEN text \o FONTES_HEADER \o Join(<<"\n">>, fontes)
  ELSE text

Tag(snippets) ==
  [i \in 1..Len(snippets) |->
     [origin |-> snippets[i].origin, score |-> snippets[i].score]]

Return(text, by) ==
  /\ ai_answer' = text
  /\ producer' = by
  /\ pc' = "deliver"

bot_idle    == UNCHANGED botVars
dedupe_idle == UNCHANGED dedupeVars
search_idle == UNCHANGED searchVars

\* handle_incoming_message, app.py:744-774, up to the call of
\* answer_with_autorag (app.py:540-553); the fixed replies of the other
\* branches are sent here, and send_text raises on an HTTP error
HandleIncomingMessage(m, sendOk) ==
  /\ pc = "idle"
  /\ msg' = m
  /\ IF m.type = "text" /\ Strip(m.body) # <<>>
     THEN /\ sendOk
          /\ calls' = <<"mark_read">>
          /\ pc' = IF ~cfg.autorag THEN "ask_ai_with_context"
                   ELSE IF cfg.mode = "ai-search" THEN "autorag_ai_search"
                   ELSE "autorag_search"
          /\ ctx' = IF ~cfg.autorag THEN "direct" ELSE "none"
          /\ UNCHANGED <<sent, raised>>
     ELSE /\ calls' = <<"mark_read", "send">>
          /\ sent' = IF sendOk
                     THEN << CASE m.type = "text"        -> MSG_EMPTY_TEXT
                               [] m.type = "interactive" -> MSG_INTERACTIVE
                               [] OTHER                  -> MSG_OTHER_TYPE >>
                     ELSE <<>>
          /\ raised' = ~sendOk
          /\ pc' = "done"
          /\ UNCHANGED ctx
  /\ UNCHANGED <<cfg, retrieved, accepted, gate, rejectAt, model_out, ai_answer, producer>>
  /\ bot_idle /\ dedupe_idle /\ search_idle /\ rest_idle

\* mutant: the ai-search fallback is tried whatever autorag_search returned
AutoragSearch_AlwaysAiSearch ==
  /\ pc = "autorag_search"
  /\ calls' = Append(calls, "autorag_search")
  /\ \/ \* autorag_request raises: the except branch, app.py:569-571
        /\ pc' = "ask_ai_with_context"
        /\ ctx' = "except"
        /\ UNCHANGED <<retrieved, accepted>>
     \/ \E items \in AutoragResults :
          LET found == Snippets(items)
              kept  == ThresholdFilter(found, cfg.thr)
          IN  /\ retrieved' = retrieved \o Tag(found)
              /\ accepted' = kept
              /\ pc' = "ai_search_fallback"
              /\ UNCHANGED ctx
  /\ UNCHANGED <<cfg, msg, gate, rejectAt, model_out, ai_answer, producer, sent, raised>>
  /\ bot_idle /\ dedupe_idle /\ search_idle /\ rest_idle

\* answer_with_autorag, search mode, app.py:553-567 (autorag_search: 429-456)
AutoragSearch ==
  /\ pc = "autorag_search"
  /\ calls' = Append(calls, "autorag_search")
  /\ \/ \* autorag_request raises: the except branch, app.py:569-571
        /\ pc' = "ask_ai_with_context"
        /\ ctx' = "except"
        /\ UNCHANGED <<retrieved, accepted>>
     \/ \E items \in AutoragResults :
          LET found == Snippets(items)
              kept  == ThresholdFilter(found, cfg.thr)
          IN  /\ retrieved' = retrieved \o Tag(found)
              /\ accepted' = kept
              /\ pc' = IF kept = <<>> THEN "ai_search_fallback"
                       ELSE "generate_with_openai"
              /\ UNCHANGED ctx
  /\ UNCHANGED <<cfg, msg, gate, rejectAt, model_out, ai_answer, producer, sent, raised>>
  /\ bot_idle /\ dedupe_idle /\ search_idle /\ rest_idle

\* answer_with_autorag, ai-search mode, app.py:547-550
AutoragAiSearch ==
  /\ pc = "autorag_ai_search"
  /\ calls' = Append(calls, "ai_search")
  /\ \E r \in AiSearchAnswers :
       IF r.kind = "raise"
       THEN /\ pc' = "ask_ai_with_context"
            /\ ctx' = "except"
            /\ UNCHANGED <<ai_answer, producer>>
       ELSE /\ IF Strip(r.text) # <<>>
               THEN Return(Strip(r.text), "ai_search")
               ELSE Return(MSG_AUTORAG_NOT_FOUND, "ai_search_not_found")
            /\ UNCHANGED ctx
  /\ UNCHANGED <<cfg, msg, retrieved, accepted, gate, rejectAt, model_out, sent, raised>>
  /\ bot_idle /\ dedupe_idle /\ search_idle /\ rest_idle

\* answer_with_autorag, the ai-search fallback of search mode, app.py:554-565
AiSearchFallback ==
  /\ pc = "ai_search_fallback"
  /\ calls' = Append(calls, "ai_search")
  /\ \E r \in AiSearchAnswers :
       IF r.kind # "raise" /\ Strip(r.text) # <<>>
       THEN /\ Return(Strip(r.text), "ai_search_fallback")
            /\ UNCHANGED ctx
       ELSE /\ pc' = "ask_ai_with_context"
            /\ ctx' = "in_try"
            /\ UNCHANGED <<ai_answer, producer>>
  /\ UNCHANGED <<cfg, msg, retrieved, accepted, gate, rejectAt, model_out, sent, raised>>
  /\ bot_idle /\ dedupe_idle /\ search_idle /\ rest_idle

\* generate_with_openai, app.py:481-533
GenerateWithOpenai ==
  /\ pc = "generate_with_openai"
  /\ IF ~cfg.key
     THEN /\ Return(MSG_GEN_NO_KEY, "gen_no_key")
          /\ UNCHANGED <<calls, model_out>>
     ELSE /\ calls' = Append(calls, "chat")
          /\ \E c \in Completions :
               IF c.kind = "text"
               THEN /\ model_out' = Strip(c.text)
                    /\ Return(AppendSources(Strip(c.text), Fontes(accepted)), "generate")
               ELSE /\ Return(MSG_GEN_FAIL, "gen_fail")
                    /\ UNCHANGED model_out
  /\ UNCHANGED <<cfg, msg, ctx, retrieved, accepted, gate, rejectAt, sent, raised>>
  /\ bot_idle /\ dedupe_idle /\ search_idle /\ rest_idle

\* ask_ai_with_context, app.py:578-596: the key check, retrieve() and the gate.
\* retrieve() is outside any try: an exception of the database or of the
\* embedding call leaves the function; called from app.py:565 it is caught at
\* app.py:569 and the function is called again (app.py:571), otherwise it
\* reaches the catch-all of handle_incoming_message (app.py:785)
AskAiWithContext ==
  /\ pc = "ask_ai_with_context"
  /\ IF ~cfg.key
     THEN /\ Return(MSG_NO_KEY, "no_key")
          /\ UNCHANGED <<calls, ctx, retrieved, accepted, gate, rejectAt, raised>>
     ELSE /\ calls' = Append(calls, "retrieve")
          /\ \/ /\ IF ctx = "in_try"
                   THEN /\ ctx' = "except"
                        /\ UNCHANGED <<pc, raised>>
                   ELSE /\ raised' = TRUE
                        /\ pc' = "done"
                        /\ UNCHANGED ctx
                /\ UNCHANGED <<retrieved, accepted, gate, rejectAt, ai_answer, producer>>
             \/ \E scores \in LocalHitLists :
                  LET snippets == [i \in 1..Len(scores) |->
                                     [origin |-> "local", text |-> <<"t">>,
                                      score |-> scores[i], src |-> <<"d">>]]
                      relevant == Relevant(snippets)
                  IN  /\ retrieved' = retrieved \o Tag(snippets)
                      /\ accepted' = relevant
                      /\ IF relevant = <<>>
                         THEN /\ gate' = "rejected"
                              /\ rejectAt' = Len(calls')
                              /\ IF NoBasis(cfg.strict) = "refuse"
                                 THEN Return(MSG_STRICT_REFUSAL, "strict_refusal")
                                 ELSE /\ pc' = "ask_ai"
                                      /\ UNCHANGED <<ai_answer, producer>>
                         ELSE /\ gate' = "accepted"
                              /\ pc' = "grounded_completion"
                              /\ UNCHANGED <<rejectAt, ai_answer, producer>>
                      /\ UNCHANGED <<ctx, raised>>
  /\ UNCHANGED <<cfg, msg, model_out, sent>>
  /\ bot_idle /\ dedupe_idle /\ search_idle /\ rest_idle

\* ask_ai, app.py:210-226 (OPENAI_API_KEY was checked by the caller)
AskAi ==
  /\ pc = "ask_ai"
  /\ calls' = Append(calls, "chat")
  /\ \E c \in Completions :
       IF c.kind = "raise"
       THEN /\ Return(MSG_AI_ERROR, "ai_error")
            /\ UNCHANGED model_out
       ELSE /\ model_out' = Strip(c.text)
            /\ Return(Strip(c.text), "ask_ai")
  /\ UNCHANGED <<cfg, msg, ctx, retrieved, accepted, gate, rejectAt, sent, raised>>
  /\ bot_idle /\ dedupe_idle /\ search_idle /\ rest_idle

\* ask_ai_with_context, app.py:617-635: the grounded completion and its check
GroundedCompletion ==
  /\ pc = "grounded_completion"
  /\ calls' = Append(calls, "chat")
  /\ \E c \in Completions :
       IF c.kind = "raise"
       THEN /\ Return(MSG_RAG_ERROR, "rag_error")
            /\ UNCHANGED model_out
       ELSE /\ model_out' = Strip(c.text)
            /\ Return(Validate(Strip(c.text)), "grounded")
  /\ UNCHANGED <<cfg, msg, ctx, retrieved, accepted, gate, rejectAt, sent, raised>>
  /\ bot_idle /\ dedupe_idle /\ search_idle /\ rest_idle

\* handle_incoming_message, app.py:776-777 and 785: compact_whatsapp, then
\* send_text_chunks (app.py:161-164); send_text raises on an HTTP error
\* (app.py:158) and the catch-all only logs it
Deliver ==
  /\ pc = "deliver"
  /\ LET chunks == Chunks(compact_whatsapp(ai_answer), APP_CHUNK_SIZE)
     IN  \E n \in 0..Len(chunks) :
           /\ sent' = SubSeq(chunks, 1, n)
           /\ raised' = (n < Len(chunks))
           /\ calls' = calls \o [i \in 1..Min(n + 1, Len(chunks)) |-> "send"]
  /\ pc' = "done"
  /\ UNCHANGED <<cfg, msg, ctx, retrieved, accepted, gate, rejectAt, model_out,
                 ai_answer, producer>>
  /\ bot_idle /\ dedupe_idle /\ search_idle /\ rest_idle

-----------------------------------------------------------------------------
(* Idle values of the parts a specification does not exercise              *)

BotIdle ==
  /\ recent_ids_q = <<>>
  /\ recent_ids_set = {}
  /\ processed = <<>>
  /\ next_id = 0
  /\ last_resp = "none"
  /\ failed = {}

DedupeIdle ==
  /\ d_in = <<>>
  /\ d_out = [topk |-> <<>>, llm |-> <<>>]
  /\ d_twice = [topk |-> <<>>, llm |-> <<>>]
  /\ d_pc = "off"

SearchIdle ==
  /\ s_query = <<>>
  /\ s_k = 0
  /\ s_backend = <<>>
  /\ s_idx = 0
  /\ s_output = <<>>
  /\ s_trace = <<>>
  /\ s_calls = <<>>
  /\ s_pc = "off"

AppIdle ==
  /\ cfg = [key |-> TRUE, strict |-> TRUE, autorag |-> FALSE, mode |-> "search",
            thr |-> CF_AUTORAG_SEARCH_THRESHOLD]
  /\ pc = "off"
  /\ msg = NoMsg
  /\ ctx = "none"
  /\ retrieved = <<>>
  /\ accepted = <<>>
  /\ gate = "none"
  /\ rejectAt = -1
  /\ model_out = <<>>
  /\ ai_answer = <<>>
  /\ producer = "none"
  /\ calls = <<>>
  /\ sent = <<>>
  /\ raised = FALSE

-----------------------------------------------------------------------------
(* Specification of the answer pipeline of app.py: one message, under      *)
(* every configuration                                                     *)

AppInit ==
  /\ cfg \in Configs
  /\ pc = "idle"
  /\ msg = NoMsg
  /\ ctx = "none"
  /\ retrieved = <<>>
  /\ accepted = <<>>
  /\ gate = "none"
  /\ rejectAt = -1
  /\ model_out = <<>>
  /\ ai_answer = <<>>
  /\ producer = "none"
  /\ calls = <<>>
  /\ sent = <<>>
  /\ raised = FALSE
  /\ BotIdle /\ DedupeIdle /\ SearchIdle /\ RestIdle

AppNext ==
  \/ \E m \in Messages, sendOk \in BOOLEAN : HandleIncomingMessage(m, sendOk)
  \/ AutoragSearch
  \/ AutoragAiSearch
  \/ AiSearchFallback
  \/ GenerateWithOpenai
  \/ AskAiWithContext
  \/ AskAi
  \/ GroundedCompletion
  \/ Deliver

SpecApp == AppInit /\ [][AppNext]_vars

-----------------------------------------------------------------------------
(* Claims about the answer pipeline (checked under SpecApp)                *)

\* answer_with_autorag has returned a text
Returned == producer # "none"

\* the threshold an excerpt is held against: RAG_MIN_SIM for the local index,
\* the AutoRAG search threshold for an AutoRAG snippet
ThresholdOf(origin) == IF origin = "local" THEN RAG_MIN_SIM ELSE cfg.thr

SomeExcerptCleared ==
  \E i \in 1..Len(retrieved) :
     retrieved[i].score >= ThresholdOf(retrieved[i].origin)

\* C1, as stated: under every configuration, no answer containing a [n] marker
\* is returned unless at least one retrieved excerpt had a score greater than
\* or equal to the similarity threshold.
C1_NoCitationWithoutBasis ==
  (Returned /\ CitationSearch(ai_answer)) => SomeExcerptCleared

\* C1, amended: an answer containing a [n] marker is returned only if at least
\* one retrieved excerpt had a score greater than or equal to the threshold,
\* except when the answer is the unvalidated text of the non-strict ask_ai
\* fallback or of an AutoRAG ai-search response, or when it comes from
\* generate_with_openai under an AutoRAG search threshold of 0 (no filtering).
C1_GroundedCitationHasBasis ==
  ( /\ Returned
    /\ CitationSearch(ai_answer)
    /\ producer \notin {"ask_ai", "ai_search", "ai_search_fallback"}
    /\ ~(producer = "generate" /\ cfg.thr = 0) )
  => SomeExcerptCleared

C1_Witness ==
  /\ pc = "done"
  /\ producer = "grounded"
  /\ CitationSearch(ai_answer)
  /\ SomeExcerptCleared
  /\ sent # <<>>

\* C2: when the gate of ask_ai_with_context rejects (no retrieved snippet has
\* score >= RAG_MIN_SIM) and RAG_STRICT is on, the text returned is the fixed
\* refusal string of app.py:595, and what is delivered to the user is that
\* same string.
C2_StrictRejectionReturnsRefusal ==
  (gate = "rejected" /\ cfg.strict)
  => /\ Returned
     /\ ai_answer = MSG_STRICT_REFUSAL
     /\ (sent = <<>> \/ Flatten(sent) = MSG_STRICT_REFUSAL)
     /\ (pc = "done" /\ ~raised => Flatten(sent) = MSG_STRICT_REFUSAL)

C2_Witness ==
  /\ gate = "rejected"
  /\ cfg.strict
  /\ retrieved # <<>>
  /\ pc = "done"
  /\ sent = <<MSG_STRICT_REFUSAL>>

\* C3: when the gate rejects under strict mode, no chat-completion call
\* (grounded or ask_ai) and no other service call happens between the
\* rejection and the reply: the calls after the rejection are sends only.
C3_NoCompletionAfterStrictRejection ==
  (gate = "rejected" /\ cfg.strict)
  => /\ rejectAt >= 0
     /\ \A i \in (rejectAt + 1)..Len(calls) : calls[i] = "send"
     /\ \A i \in 1..Len(calls) : calls[i] # "chat"

C3_Witness ==
  /\ gate = "rejected"
  /\ cfg.strict
  /\ pc = "done"
  /\ Len(calls) > rejectAt
  /\ \E i \in 1..Len(calls) : calls[i] = "ai_search"

C5_EveryTextMessageGetsReply ==
  (pc = "done" /\ msg.type = "text")
  => /\ sent # <<>>
     /\ \A i \in 1..Len(sent) : sent[i] # <<>>
     /\ ~raised

-----------------------------------------------------------------------------
(* bot.py: the message-id dedup of the webhook                             *)

MAX_IDS == 200

\* bound of the model: how many distinct message ids are ever delivered
MaxFresh == 202

\* msg_id of a payload: 0 stands for a missing or empty id, 1, 2, ... are the
\* non-empty ids in the order of their first delivery
NoId == 0

\* mutant: a deque without maxlen
DequeAppend_Unbounded(q, x) == Append(q, x)

\* deque(maxlen=_MAX_IDS).append: a full deque drops its oldest entry
DequeAppend(q, x) ==
  IF Len(q) >= MAX_IDS THEN Append(Tail(q), x) ELSE Append(q, x)

Range(q) == {q[i] : i \in 1..Len(q)}

\* mutant: the id is not recorded
SeenAdd_Forget(msg_id, q, ids) == [q |-> q, ids |-> ids]

\* _seen, bot.py:124-130: record an id that is not in the set
SeenAdd(msg_id, q, ids) ==
  LET ids1 == ids \cup {msg_id}
      q1   == DequeAppend(q, msg_id)
  IN  [q |-> q1,
       ids |-> IF Cardinality(ids1) > Len(q1) THEN Range(q1) ELSE ids1]

\* _seen, bot.py:119-131: the value returned and the two containers after it
Seen(msg_id, q, ids) ==
  IF msg_id = NoId THEN [ret |-> FALSE, q |-> q, ids |-> ids]
  ELSE IF msg_id \in ids THEN [ret |-> TRUE, q |-> q, ids |-> ids]
  ELSE [ret |-> FALSE] @@ SeenAdd(msg_id, q, ids)

\* bound of the model: the failures of the first MaxTracked messages, which
\* are the ones redelivered at any time, are remembered
MaxTracked == 2

\* mutant: the id is recorded after the steps, and only if none raised; the
\* original: webhook, for a payload _extract_wa accepts: the dedup test,
\* then steps 1) to 5), which end with {"ok": ...} or raise (answer 500).
\* processed lists the non-empty ids that went through the steps, in order
Webhook_RecordAfter(msg_id, outcome) ==
  /\ IF msg_id = next_id
     THEN next_id < MaxFresh /\ next_id' = next_id + 1
     ELSE UNCHANGED next_id
  /\ LET r == Seen(msg_id, recent_ids_q, recent_ids_set)
     IN  /\ recent_ids_q' = IF outcome = "error" THEN recent_ids_q ELSE r.q
         /\ recent_ids_set' = IF outcome = "error" THEN recent_ids_set ELSE r.ids
         /\ IF r.ret
            THEN /\ outcome = "ok"
                 /\ last_resp' = "dedup"
                 /\ UNCHANGED <<processed, failed>>
            ELSE /\ last_resp' = outcome
                 /\ processed' = IF msg_id = NoId THEN processed
                                 ELSE Append(processed, msg_id)
                 /\ failed' = IF outcome = "error" /\ msg_id \in 1..MaxTracked
                               THEN failed \cup {msg_id} ELSE failed
  /\ UNCHANGED appVars /\ dedupe_idle /\ search_idle /\ rest_idle

\* webhook, bot.py:246-301, for a payload _extract_wa accepts: the dedup test,
\* then steps 1) to 5), which end with {"ok": ...} or raise (answer 500).
\* processed lists the non-empty ids that went through the steps, in order
Webhook(msg_id, outcome) ==
  /\ IF msg_id = next_id
     THEN next_id < MaxFresh /\ next_id' = next_id + 1
     ELSE UNCHANGED next_id
  /\ LET r == Seen(msg_id, recent_ids_q, recent_ids_set)
     IN  /\ recent_ids_q' = r.q
         /\ recent_ids_set' = r.ids
         /\ IF r.ret
            THEN /\ outcome = "ok"
                 /\ last_resp' = "dedup"
                 /\ UNCHANGED <<processed, failed>>
            ELSE /\ last_resp' = outcome
                 /\ processed' = IF msg_id = NoId THEN processed
                                 ELSE Append(processed, msg_id)
                 /\ failed' = IF outcome = "error" /\ msg_id \in 1..MaxTracked
                               THEN failed \cup {msg_id} ELSE failed
  /\ UNCHANGED appVars /\ dedupe_idle /\ search_idle /\ rest_idle

\* webhook, bot.py:254-256: a payload without a usable text message
WebhookIgnored ==
  /\ last_resp' = "ignored"
  /\ UNCHANGED <<recent_ids_q, recent_ids_set, processed, next_id, failed>>
  /\ UNCHANGED appVars /\ dedupe_idle /\ search_idle /\ rest_idle

\* The deliveries: a message never delivered before, a redelivery of one of
\* the first two messages or of the latest one, or a payload without id
DeliveredIds == {NoId, 1, 2, next_id - 1, next_id} \ {-1}

BotInit ==
  /\ AppIdle /\ DedupeIdle /\ SearchIdle /\ RestIdle
  /\ recent_ids_q = <<>>
  /\ recent_ids_set = {}
  /\ processed = <<>>
  /\ next_id = 1
  /\ last_resp = "none"
  /\ failed = {}

BotNext ==
  \/ \E msg_id \in DeliveredIds, outcome \in {"ok", "not_ok", "error"} :
        /\ msg_id <= next_id
        /\ Webhook(msg_id, outcome)
  \/ WebhookIgnored

SpecBot == BotInit /\ [][BotNext]_vars

-----------------------------------------------------------------------------
(* _dedupe of topk_client.py and of llm_client.py                          *)

\* bound of the model: the longest input list
MaxDedupeLen == 4

\* normalized hits: two with the same key and different excerpts, one whose
\* title differs from theirs only by a trailing blank, and one differing in
\* each component of the key
DedupeHits ==
  { [doc_id |-> "D1", artigo_numero |-> "5", titulo |-> <<"A">>,      trecho |-> <<"x">>],
    [doc_id |-> "D1", artigo_numero |-> "5", titulo |-> <<"A">>,      trecho |-> <<"y">>],
    [doc_id |-> "D1", artigo_numero |-> "5", titulo |-> <<"A", " ">>, trecho |-> <<"x">>],
    [doc_id |-> "D1", artigo_numero |-> "5", titulo |-> <<"B">>,      trecho |-> <<"x">>],
    [doc_id |-> "D1", artigo_numero |-> "6", titulo |-> <<"A">>,      trecho |-> <<"x">>],
    [doc_id |-> "D2", artigo_numero |-> "5", titulo |-> <<"A">>,      trecho |-> <<"x">>] }

DedupeInputs == UNION {[1..n -> DedupeHits] : n \in 0..MaxDedupeLen}

\* topk_client.py:160: (doc_id, artigo_numero, (titulo or "").strip())
topk_Key(it) == <<it.doc_id, it.artigo_numero, Strip(it.titulo)>>

\* llm_client.py:142: (doc_id, artigo_numero, titulo)
llm_Key(it) == <<it.doc_id, it.artigo_numero, it.titulo>>

\* mutant: every hit is appended, the key test is lost
topk_DedupeStep_KeepAll(acc, it) ==
  [seen |-> acc.seen \cup {topk_Key(it)}, out |-> Append(acc.out, it)]

\* one iteration of the loop of topk_client.py:159-164
topk_DedupeStep(acc, it) ==
  IF topk_Key(it) \in acc.seen
  THEN acc
  ELSE [seen |-> acc.seen \cup {topk_Key(it)}, out |-> Append(acc.out, it)]

\* mutant: a duplicate removes its key from seen, so a third copy is kept
llm_DedupeStep_Toggle(acc, it) ==
  IF llm_Key(it) \in acc.seen
  THEN [seen |-> acc.seen \ {llm_Key(it)}, out |-> acc.out]
  ELSE [seen |-> acc.seen \cup {llm_Key(it)}, out |-> Append(acc.out, it)]

\* one iteration of the loop of llm_client.py:141-145
llm_DedupeStep(acc, it) ==
  IF llm_Key(it) \notin acc.seen
  THEN [seen |-> acc.seen \cup {llm_Key(it)}, out |-> Append(acc.out, it)]
  ELSE acc

RECURSIVE topk_DedupeFrom(_, _)
topk_DedupeFrom(items, acc) ==
  IF items = <<>> THEN acc.out
  ELSE topk_DedupeFrom(Tail(items), topk_DedupeStep(acc, Head(items)))

RECURSIVE llm_DedupeFrom(_, _)
llm_DedupeFrom(items, acc) ==
  IF items = <<>> THEN acc.out
  ELSE llm_DedupeFrom(Tail(items), llm_DedupeStep(acc, Head(items)))

\* _dedupe, topk_client.py:156-165
topk_dedupe(items) == topk_DedupeFrom(items, [seen |-> {}, out |-> <<>>])

\* _dedupe, llm_client.py:139-146
llm_dedupe(items) == llm_DedupeFrom(items, [seen |-> {}, out |-> <<>>])

DedupeInit ==
  /\ AppIdle /\ BotIdle /\ SearchIdle /\ RestIdle
  /\ d_in \in DedupeInputs
  /\ d_out = [topk |-> <<>>, llm |-> <<>>]
  /\ d_twice = [topk |-> <<>>, llm |-> <<>>]
  /\ d_pc = "input"

\* _dedupe applied to the input
Dedupe ==
  /\ d_pc = "input"
  /\ d_out' = [topk |-> topk_dedupe(d_in), llm |-> llm_dedupe(d_in)]
  /\ d_pc' = "once"
  /\ UNCHANGED <<d_in, d_twice>>
  /\ UNCHANGED appVars /\ bot_idle /\ search_idle /\ rest_idle

\* _dedupe applied to its own result
DedupeAgain ==
  /\ d_pc = "once"
  /\ d_twice' = [topk |-> topk_dedupe(d_out.topk), llm |-> llm_dedupe(d_out.llm)]
  /\ d_pc' = "twice"
  /\ UNCHANGED <<d_in, d_out>>
  /\ UNCHANGED appVars /\ bot_idle /\ search_idle /\ rest_idle

DedupeNext == Dedupe \/ DedupeAgain

SpecDedupe == DedupeInit /\ [][DedupeNext]_vars

\* the identity key as the claim names it: (doc_id, artigo_numero, titulo)
IdentityKey(it) == <<it.doc_id, it.artigo_numero, it.titulo>>

\* the positions of xs that hold the first hit of their key, the key of the
\* hit at position i being keys[i]
FirstPositions(keys) ==
  {i \in 1..Len(keys) : \A j \in 1..(i - 1) : keys[j] # keys[i]}

\* out keeps exactly the hits of xs at the first position of each key, in the
\* order of xs, and no two hits of out have the same key
KeepsFirstOfEachKey(xs, keys, out, outKeys) ==
  LET F == FirstPositions(keys)
  IN  /\ Len(out) = Cardinality(F)
      /\ \A n \in 1..Len(out) :
            out[n] = xs[CHOOSE i \in F : Cardinality({j \in F : j <= i}) = n]
      /\ \A m, n \in 1..Len(out) : m # n => outKeys[m] # outKeys[n]
      /\ \A i \in 1..Len(xs) : \E n \in 1..Len(out) : outKeys[n] = keys[i]

KeysOf(xs, K(_)) == [i \in 1..Len(xs) |-> K(xs[i])]

\* C7, as stated: in both clients _dedupe returns a list in which no two hits
\* share the key (doc_id, artigo_numero, titulo), the hit retained for each
\* key of the input is its first occurrence, and the input order is kept.
C7_DedupeKeepsFirstByIdentityKey ==
  d_pc # "input" =>
    /\ KeepsFirstOfEachKey(d_in, KeysOf(d_in, IdentityKey),
                           d_out.llm, KeysOf(d_out.llm, IdentityKey))
    /\ KeepsFirstOfEachKey(d_in, KeysOf(d_in, IdentityKey),
                           d_out.topk, KeysOf(d_out.topk, IdentityKey))

\* C7, amended: the same, the key of topk_client.py being (doc_id,
\* artigo_numero, titulo with its surrounding white space removed): there two
\* hits whose titles differ only by surrounding white space are one citation
\* and only the first is kept; llm_client.py compares the titles as they are.
C7_DedupeKeepsFirstByCodeKey ==
  d_pc # "input" =>
    /\ KeepsFirstOfEachKey(d_in, KeysOf(d_in, IdentityKey),
                           d_out.llm, KeysOf(d_out.llm, IdentityKey))
    /\ KeepsFirstOfEachKey(d_in, [i \in 1..Len(d_in) |->
                                    <<d_in[i].doc_id, d_in[i].artigo_numero,
                                      Strip(d_in[i].titulo)>>],
                           d_out.topk,
                           [i \in 1..Len(d_out.topk) |->
                              <<d_out.topk[i].doc_id, d_out.topk[i].artigo_numero,
                                Strip(d_out.topk[i].titulo)>>])

\* two hits with the same key and different excerpts: only the first is kept
C7_Witness ==
  /\ d_pc = "once"
  /\ Len(d_in) = 3
  /\ d_in[1].trecho # d_in[2].trecho
  /\ IdentityKey(d_in[1]) = IdentityKey(d_in[2])
  /\ IdentityKey(d_in[3]) # IdentityKey(d_in[1])
  /\ Strip(d_in[3].titulo) = Strip(d_in[1].titulo)
  /\ d_in[3].doc_id # d_in[1].doc_id
  /\ d_out.topk = <<d_in[1], d_in[3]>>
  /\ d_out.llm = <<d_in[1], d_in[3]>>

\* C8: deduplication is idempotent, in both clients:
\* _dedupe(_dedupe(xs)) = _dedupe(xs).
C8_DedupeIdempotent ==
  d_pc = "twice" => (d_twice.topk = d_out.topk /\ d_twice.llm = d_out.llm)

\* an input with duplicates, deduplicated twice
C8_Witness ==
  /\ d_pc = "twice"
  /\ Len(d_out.llm) < Len(d_in)
  /\ Len(d_out.topk) < Len(d_out.llm)
  /\ Len(d_out.topk) >= 2
  /\ d_twice = d_out

-----------------------------------------------------------------------------
(* search_topk_multi of topk_client.py and search_topk of llm_client.py    *)

\* bounds of the model: the most rows one query of the service answers with,
\* and the largest k asked for
MaxRows == 2
MaxK == 2

\* the word characters of the regular expressions (after _ascii: ASCII only)
IsWordChar(c) ==
  \/ IsDigit(c)
  \/ c \in {"a", "b", "c", "d", "e", "f", "g", "h", "i", "j", "k", "l", "m",
            "n", "o", "p", "q", "r", "s", "t", "u", "v", "w", "x", "y", "z",
            "A", "B", "C", "D", "E", "F", "G", "H", "I", "J", "K", "L", "M",
            "N", "O", "P", "Q", "R", "S", "T", "U", "V", "W", "X", "Y", "Z",
            "_"}

\* str.lower(), character by character
LowerChar(c) ==
  LET upper == <<"A", "B", "C", "D", "E", "F", "G", "H", "I", "J", "K", "L", "M",
                 "N", "O", "P", "Q", "R", "S", "T", "U", "V", "W", "X", "Y", "Z",
                 "A~", "A'", "C,", "E'", "E^", "I'", "O~", "O'", "U'">>
      lower == <<"a", "b", "c", "d", "e", "f", "g", "h", "i", "j", "k", "l", "m",
                 "n", "o", "p", "q", "r", "s", "t", "u", "v", "w", "x", "y", "z",
                 "a~", "a'", "c,", "e'", "e^", "i'", "o~", "o'", "u'">>
  IN  IF \E i \in 1..Len(upper) : upper[i] = c
      THEN lower[CHOOSE i \in 1..Len(upper) : upper[i] = c]
      ELSE c

Lower(s) == [i \in 1..Len(s) |-> LowerChar(s[i])]

\* _ascii, topk_client.py:123-124 and llm_client.py:151-152: NFD, then the
\* non-ASCII code points are dropped: a letter with a mark keeps its letter
\* ("c," is c with cedilla, "a~" is a with tilde)
AsciiChar(c) ==
  CASE c = "c," -> <<"c">>
    [] c = "a~" -> <<"a">>
    [] OTHER    -> <<c>>

ascii(q) == Flatten([i \in 1..Len(q) |-> AsciiChar(q[i])])

\* _extract_number(q) is not None: re.search(r"\b(\d{2,6})\b", q) matches,
\* topk_client.py:126-128 and llm_client.py:154-156
extract_number_found(q) ==
  \E i \in 1..Len(q) : \E n \in 2..6 :
     /\ i + n - 1 <= Len(q)
     /\ \A j \in i..(i + n - 1) : IsDigit(q[j])
     /\ (i = 1 \/ ~IsWordChar(q[i - 1]))
     /\ (i + n - 1 = Len(q) \/ ~IsWordChar(q[i + n]))

\* tipos, topk_client.py:183-187
tipos ==
  { <<"p", "o", "r", "t", "a", "r", "i", "a">>,
    <<"d", "i", "r", "e", "t", "r", "i", "z">>,
    <<"l", "e", "i">>,
    <<"d", "e", "c", "r", "e", "t", "o">>,
    <<"r", "e", "s", "o", "l", "u", "c", "a", "o">>,
    <<"r", "e", "s", "o", "l", "u", "c,", "a~", "o">>,
    <<"m", "e", "m", "o", "r", "a", "n", "d", "o">>,
    <<"m", "a", "n", "u", "a", "l">>,
    <<"o", "r", "i", "e", "n", "t", "a", "c", "a", "o">>,
    <<"o", "r", "i", "e", "n", "t", "a", "c,", "a~", "o">>,
    <<"p", "a", "p">>,
    <<"p", "o", "p">>,
    <<"n", "o", "t", "a", " ", "d", "e", " ", "i", "n", "s", "t", "r", "u", "c", "a", "o">>,
    <<"n", "o", "t", "a", " ", "d", "e", " ", "i", "n", "s", "t", "r", "u", "c,", "a~", "o">>,
    <<"n", "o", "t", "a", "_", "d", "e", "_", "i", "n", "s", "t", "r", "u", "c", "a", "o">> }

\* _is_id_like, topk_client.py:167-188
topk_is_id_like(q) ==
  LET ql == ascii(Lower(q))
  IN  IF ~extract_number_found(ql) THEN FALSE
      ELSE \E t \in tipos : Contains(t, ql)

\* _is_id_like, llm_client.py:158-160
llm_is_id_like(q) ==
  LET ql == ascii(Lower(q))
  IN  Contains(<<"p", "o", "r", "t", "a", "r", "i", "a">>, ql) /\ extract_number_found(ql)

\* the rows of the service, in the order of its ranking: the fields of
\* select(), a missing field being empty (every use is "item.get(f) or ...")
RankedRows ==
  << [doc_id |-> "D1", titulo |-> <<"A">>, artigo_numero |-> "5",
      ementa |-> <<" ", "e", " ">>, texto |-> <<>>],
     [doc_id |-> "D1", titulo |-> <<"A">>, artigo_numero |-> "5",
      ementa |-> <<>>, texto |-> <<"t">>],
     [doc_id |-> "D2", titulo |-> <<"A">>, artigo_numero |-> "",
      ementa |-> <<"e">>, texto |-> <<"t">>],
     [doc_id |-> "", titulo |-> <<>>, artigo_numero |-> "5",
      ementa |-> <<" ">>, texto |-> <<>>] >>

RawRows == Range(RankedRows)

RowRank(r) == CHOOSE n \in 1..Len(RankedRows) : RankedRows[n] = r

\* what one query of the service gives: some of the rows, best first, or an
\* exception
Raise == [raised |-> TRUE, rows |-> <<>>]
NotRun == [raised |-> FALSE, rows |-> <<>>]
BackendAnswers ==
  {[raised |-> FALSE, rows |-> r] :
     r \in {x \in UNION {[1..n -> RawRows] : n \in 0..MaxRows} :
             \A i, j \in 1..Len(x) : i < j => RowRank(x[i]) < RowRank(x[j])}}
  \cup {Raise}

\* a or b, for texts and for identifiers
Or(a, b) == IF a # <<>> THEN a ELSE b
OrId(a, b) == IF a # "" THEN a ELSE b

\* _merge_excerto, topk_client.py:130-133 (llm_client.py:116-119 has no last
\* strip; its _normalize_item strips)
merge_excerto(item) ==
  Strip(Join(<<" ">>, SelectSeq(<<Strip(item.ementa), Strip(item.texto)>>,
                                 LAMBDA p : p # <<>>)))

\* _normalize_item, topk_client.py:135-154 and llm_client.py:121-137, on the
\* fields the service returns
normalize_item(item) ==
  [doc_id        |-> OrId(item.doc_id, "-"),
   artigo_numero |-> OrId(item.artigo_numero, "-"),
   titulo        |-> Or(item.titulo, <<"-">>),
   trecho        |-> Strip(Or(merge_excerto(item), <<>>))]

NormalizeAll(rows) == [i \in 1..Len(rows) |-> normalize_item(rows[i])]

\* _keyword_query, topk_client.py:193-219 and llm_client.py:163-179: nothing
\* without the query DSL, nothing on an exception
keyword_query(imported, answer) ==
  IF ~imported \/ answer.raised THEN <<>> ELSE NormalizeAll(answer.rows)

\* _semantic_query, topk_client.py:221-240
semantic_query(imported, answer) ==
  IF ~imported \/ answer.raised THEN <<>> ELSE NormalizeAll(answer.rows)

\* mutant: an exception gives nothing, without the semantic fallback
topk_hybrid_query_NoFallback(imported, answer, semAnswer) ==
  IF ~imported \/ answer.raised THEN <<>> ELSE NormalizeAll(answer.rows)

\* _hybrid_query, topk_client.py:242-298: an exception falls back to
\* _semantic_query
topk_hybrid_query(imported, answer, semAnswer) ==
  IF ~imported THEN <<>>
  ELSE IF answer.raised THEN semantic_query(imported, semAnswer)
  ELSE NormalizeAll(answer.rows)

\* _hybrid_query, llm_client.py:181-206: nothing on an exception
llm_hybrid_query(imported, answer) ==
  IF ~imported \/ answer.raised THEN <<>> ELSE NormalizeAll(answer.rows)

\* mutant: the hybrid strategy runs whatever the keyword strategy gave
NeedsHybrid_Always(results) == TRUE

\* "if not results", topk_client.py:322 and llm_client.py:214
NeedsHybrid(results) == results = <<>>

\* mutant: the hits with a blank excerpt are kept
Sane_KeepAll(results) == results

\* topk_client.py:325: the hits whose excerpt is not blank
Sane(results) == SelectSeq(results, LAMBDA r : Strip(r.trecho) # <<>>)

\* topk_client.py:327-328: r["fonte_colecao"] = name
Stamp(hits, name) == [i \in 1..Len(hits) |-> [fonte_colecao |-> name] @@ hits[i]]

\* mutant: the list is not cut
Take_All(xs, k) == xs

\* xs[:k], for k >= 0
Take(xs, k) == SubSeq(xs, 1, Min(k, Len(xs)))

\* topk_client.py:326-329: a collection is stored only when it has a hit
Store(output, name, sane, k) ==
  IF sane # <<>>
  THEN [n \in DOMAIN output \cup {name} |->
          IF n = name THEN Take(topk_dedupe(Stamp(sane, name)), k) ELSE output[n]]
  ELSE output

\* the queries of the model
Queries ==
  { <<>>,
    <<"f", "e", "r", "i", "a", "s", " ", "2", "0", "2", "4">>,
    <<"l", "e", "i", " ", "1", "2">>,
    <<"l", "e", "i", "1", "2">>,
    <<"p", "o", "r", "t", "a", "r", "i", "a", " ", "7">>,
    <<"P", "o", "r", "t", "a", "r", "i", "a", " ", "2", "7", "7", "/", "2", "0", "2", "0">>,
    <<"R", "e", "s", "o", "l", "u", "c,", "a~", "o", " ", "1", "2">>,
    <<"d", "e", "c", "r", "e", "t", "o", " ", "1", "2", "3", "4", "5", "6", "7">> }

\* _collections after _init(), topk_client.py:76-108: none loaded, or the
\* configured ones (two of TOPK_COLLECTIONS here)
CollectionLists == {<<>>, <<"Lei", "Portaria">>}

SearchBackends ==
  [client : {"topk_client"}, imported : BOOLEAN, collections : CollectionLists]
  \cup
  [client : {"llm_client"}, imported : BOOLEAN, collections : {<<>>, <<"Portaria">>}]
  \cup
  \* buscar_topk_multi of llm_client.py, on the first names of MULTI_COLLECTIONS
  [client : {"llm_client_multi"}, imported : BOOLEAN, collections : {<<"Portaria", "Diretriz">>}]

SearchInit ==
  /\ AppIdle /\ BotIdle /\ DedupeIdle /\ RestIdle
  /\ s_query \in Queries
  /\ s_k \in {1, MaxK}
  /\ s_backend \in SearchBackends
  /\ s_idx = 0
  /\ s_output = <<>>
  /\ s_trace = <<>>
  /\ s_calls = <<>>
  /\ s_pc = "start"

\* a strategy run on a collection, with the number of hits it returned
Ran(name, strategy, hits) == [col |-> name, strategy |-> strategy, n |-> Len(hits)]

\* search_topk_multi, topk_client.py:303-312: the early returns
SearchTopkMultiEnter ==
  /\ s_pc = "start"
  /\ s_backend.client = "topk_client"
  /\ IF s_query = <<>> \/ s_backend.collections = <<>>
     THEN s_pc' = "done" /\ s_idx' = s_idx
     ELSE s_pc' = "loop" /\ s_idx' = 1
  /\ UNCHANGED <<s_query, s_k, s_backend, s_output, s_trace, s_calls>>
  /\ UNCHANGED appVars /\ bot_idle /\ dedupe_idle /\ rest_idle

\* a query sent to the service for a collection, with its answer
Call(name, strategy, answer) == [col |-> name, strategy |-> strategy, answer |-> answer]

\* mutant: the exception of a failing query is not caught
Escapes_Uncaught(answer) == answer.raised

\* whether the exception of a failing query leaves the query function:
\* "except Exception" of topk_client.py:217-219, 238-240 and 296-298 and of
\* llm_client.py:178-179 and 205-206 catches it
Escapes(answer) == FALSE

\* search_topk_multi, topk_client.py:314-333: one iteration of the loop over
\* the collections; kw, hy and sem are what the service answers to the
\* queries that are made
SearchCollection ==
  /\ s_pc = "loop"
  /\ LET name   == s_backend.collections[s_idx]
         imp    == s_backend.imported
         idlike == topk_is_id_like(s_query)
     IN \E kw \in IF idlike /\ imp THEN BackendAnswers ELSE {NotRun} :
        LET r1 == IF idlike THEN keyword_query(imp, kw) ELSE <<>>
            t1 == IF idlike THEN <<Ran(name, "keyword", r1)>> ELSE <<>>
            c1 == IF idlike /\ imp THEN <<Call(name, "keyword", kw)>> ELSE <<>>
        IN \E hy \in IF NeedsHybrid(r1) /\ imp THEN BackendAnswers ELSE {NotRun} :
           \E sem \in IF hy.raised THEN BackendAnswers ELSE {NotRun} :
           LET r2 == IF NeedsHybrid(r1) THEN topk_hybrid_query(imp, hy, sem) ELSE r1
               t2 == IF NeedsHybrid(r1) THEN <<Ran(name, "hybrid", r2)>> ELSE <<>>
               c2 == IF NeedsHybrid(r1) /\ imp THEN <<Call(name, "hybrid", hy)>> ELSE <<>>
               c3 == IF hy.raised THEN <<Call(name, "semantic", sem)>> ELSE <<>>
               made == c1 \o c2 \o c3
           IN /\ s_trace' = s_trace \o t1 \o t2
              /\ s_calls' = s_calls \o made
              /\ IF \E i \in 1..Len(made) : Escapes(made[i].answer)
                 THEN /\ s_pc' = "raised"
                      /\ s_output' = <<>>
                      /\ s_idx' = s_idx
                 ELSE /\ s_output' = Store(s_output, name, Sane(r2), s_k)
                      /\ IF s_idx = Len(s_backend.collections)
                         THEN s_pc' = "done" /\ s_idx' = s_idx
                         ELSE s_pc' = "loop" /\ s_idx' = s_idx + 1
  /\ UNCHANGED <<s_query, s_k, s_backend>>
  /\ UNCHANGED appVars /\ bot_idle /\ dedupe_idle /\ rest_idle

\* search_topk, llm_client.py:209-217; the list returned is kept under the
\* name "search_topk"
SearchTopk ==
  /\ s_pc = "start"
  /\ s_backend.client = "llm_client"
  /\ IF s_query = <<>> \/ s_backend.collections = <<>>
     THEN /\ s_output' = [n \in {"search_topk"} |-> <<>>]
          /\ s_trace' = s_trace
          /\ s_calls' = s_calls
          /\ s_pc' = "done"
     ELSE LET name   == s_backend.collections[1]
              imp    == s_backend.imported
              idlike == llm_is_id_like(s_query)
          IN \E kw \in IF idlike /\ imp THEN BackendAnswers ELSE {NotRun} :
             LET r1 == IF idlike THEN keyword_query(imp, kw) ELSE <<>>
                 t1 == IF idlike THEN <<Ran(name, "keyword", r1)>> ELSE <<>>
                 c1 == IF idlike /\ imp THEN <<Call(name, "keyword", kw)>> ELSE <<>>
             IN \E hy \in IF NeedsHybrid(r1) /\ imp THEN BackendAnswers ELSE {NotRun} :
                LET r2 == IF NeedsHybrid(r1) THEN llm_hybrid_query(imp, hy) ELSE r1
                    t2 == IF NeedsHybrid(r1) THEN <<Ran(name, "hybrid", r2)>> ELSE <<>>
                    c2 == IF NeedsHybrid(r1) /\ imp THEN <<Call(name, "hybrid", hy)>> ELSE <<>>
                    made == c1 \o c2
                IN /\ s_trace' = s_trace \o t1 \o t2
                   /\ s_calls' = s_calls \o made
                   /\ IF \E i \in 1..Len(made) : Escapes(made[i].answer)
                      THEN s_pc' = "raised" /\ s_output' = <<>>
                      ELSE /\ s_pc' = "done"
                           /\ s_output' = [n \in {"search_topk"} |->
                                Take(llm_dedupe(SelectSeq(r2, LAMBDA r : r.trecho # <<>>)), s_k)]
  /\ UNCHANGED <<s_query, s_k, s_backend, s_idx>>
  /\ UNCHANGED appVars /\ bot_idle /\ dedupe_idle /\ rest_idle

\* buscar_topk_multi, llm_client.py:223-231: the early return; the list
\* resultados is kept under the name "buscar_topk_multi"
BuscarTopkMultiEnter ==
  /\ s_pc = "start"
  /\ s_backend.client = "llm_client_multi"
  /\ s_output' = [n \in {"buscar_topk_multi"} |-> <<>>]
  /\ IF s_query = <<>> \/ ~s_backend.imported
     THEN s_pc' = "done" /\ s_idx' = s_idx
     ELSE s_pc' = "multi" /\ s_idx' = 1
  /\ UNCHANGED <<s_query, s_k, s_backend, s_trace, s_calls>>
  /\ UNCHANGED appVars /\ bot_idle /\ dedupe_idle /\ rest_idle

\* buscar_topk_multi, llm_client.py:233-245: one iteration of the loop over
\* MULTI_COLLECTIONS (client.collection(nome) may raise, and the collection
\* is then skipped), and the return after the last one
BuscarCollection ==
  /\ s_pc = "multi"
  /\ LET name   == s_backend.collections[s_idx]
         idlike == llm_is_id_like(s_query)
         last   == s_idx = Len(s_backend.collections)
         so_far == s_output["buscar_topk_multi"]
     IN \E opened \in BOOLEAN :
        \E kw \in IF opened /\ idlike THEN BackendAnswers ELSE {NotRun} :
        LET r1 == IF idlike THEN keyword_query(TRUE, kw) ELSE <<>>
            t1 == IF idlike THEN <<Ran(name, "keyword", r1)>> ELSE <<>>
            c1 == IF idlike THEN <<Call(name, "keyword", kw)>> ELSE <<>>
        IN \E hy \in IF opened /\ NeedsHybrid(r1) THEN BackendAnswers ELSE {NotRun} :
           LET r2 == IF NeedsHybrid(r1) THEN llm_hybrid_query(TRUE, hy) ELSE r1
               t2 == IF NeedsHybrid(r1) THEN <<Ran(name, "hybrid", r2)>> ELSE <<>>
               c2 == IF NeedsHybrid(r1) THEN <<Call(name, "hybrid", hy)>> ELSE <<>>
               made == IF opened THEN c1 \o c2 ELSE <<>>
               resultados == IF opened
                             THEN so_far \o SelectSeq(r2, LAMBDA r : r.trecho # <<>>)
                             ELSE so_far
           IN /\ s_trace' = IF opened THEN s_trace \o t1 \o t2 ELSE s_trace
              /\ s_calls' = s_calls \o made
              /\ IF \E i \in 1..Len(made) : Escapes(made[i].answer)
                 THEN s_pc' = "raised" /\ s_output' = <<>> /\ s_idx' = s_idx
                 ELSE IF last
                 THEN /\ s_output' = [n \in {"buscar_topk_multi"} |->
                                        Take(llm_dedupe(resultados), s_k)]
                      /\ s_pc' = "done" /\ s_idx' = s_idx
                 ELSE /\ s_output' = [n \in {"buscar_topk_multi"} |-> resultados]
                      /\ s_pc' = "multi" /\ s_idx' = s_idx + 1
  /\ UNCHANGED <<s_query, s_k, s_backend>>
  /\ UNCHANGED appVars /\ bot_idle /\ dedupe_idle /\ rest_idle

SearchNext ==
  \/ SearchTopkMultiEnter \/ SearchCollection \/ SearchTopk
  \/ BuscarTopkMultiEnter \/ BuscarCollection

SpecSearch == SearchInit /\ [][SearchNext]_vars

\* the collections search_topk_multi has gone through
Searched ==
  IF s_pc = "loop" THEN SubSeq(s_backend.collections, 1, s_idx - 1)
  ELSE IF s_pc = "done" /\ s_trace # <<>> THEN s_backend.collections
  ELSE <<>>

\* the strategies run on a collection, in the order they were run
RunsOn(name) == SelectSeq(s_trace, LAMBDA t : t.col = name)

\* C9: in the mapping of search_topk_multi (k >= 1), every key maps to a
\* non-empty list, every hit in it has a non-blank excerpt and carries
\* fonte_colecao equal to its key, and a collection whose search gave no
\* usable hit is absent from the mapping.
C9_MappingHasNoEmptyEntry ==
  s_backend.client = "topk_client" =>
    /\ \A name \in DOMAIN s_output :
          /\ s_output[name] # <<>>
          /\ Len(s_output[name]) <= s_k
          /\ \A i \in 1..Len(s_output[name]) :
                /\ Strip(s_output[name][i].trecho) # <<>>
                /\ s_output[name][i].fonte_colecao = name
    /\ DOMAIN s_output \subseteq Range(Searched)
    /\ \A j \in 1..Len(Searched) :
          (RunsOn(Searched[j])[Len(RunsOn(Searched[j]))].n = 0)
             => Searched[j] \notin DOMAIN s_output

\* both collections searched: one gave only a hit with a blank excerpt and is
\* absent, the other gave more hits than k and is cut to k
C9_Witness ==
  /\ s_backend.client = "topk_client"
  /\ s_pc = "done"
  /\ DOMAIN s_output = {"Portaria"}
  /\ Len(s_trace) = 2
  /\ s_trace[1].n = 1
  /\ s_trace[2].n = 2
  /\ s_k = 1
  /\ Len(s_output["Portaria"]) = 1
  /\ s_output["Portaria"][1].fonte_colecao = "Portaria"

\* C10: for each collection searched, by search_topk_multi and by search_topk:
\* if the query is ID-like (the client's own _is_id_like) the keyword strategy
\* is run first and the hybrid strategy is run only if the keyword strategy
\* yielded zero hits, and then it is run; if the query is not ID-like the
\* keyword strategy is never run and the hybrid strategy is run directly.
C10_KeywordFirstOnlyForIdLike ==
  LET idlike == IF s_backend.client = "topk_client"
                THEN topk_is_id_like(s_query) ELSE llm_is_id_like(s_query)
      cols   == IF s_backend.client = "topk_client" THEN Searched
                ELSE IF s_backend.client = "llm_client_multi"
                THEN SelectSeq(s_backend.collections, LAMBDA n : RunsOn(n) # <<>>)
                ELSE IF s_pc = "done" /\ s_query # <<>> THEN s_backend.collections
                ELSE <<>>
  IN  /\ \A j \in 1..Len(cols) :
            LET runs == RunsOn(cols[j])
            IN  IF idlike
                THEN /\ Len(runs) \in {1, 2}
                     /\ runs[1].strategy = "keyword"
                     /\ (Len(runs) = 2) <=> (runs[1].n = 0)
                     /\ Len(runs) = 2 => runs[2].strategy = "hybrid"
                ELSE /\ Len(runs) = 1
                     /\ runs[1].strategy = "hybrid"
      /\ \A i \in 1..Len(s_trace) : s_trace[i].col \in Range(cols)
      \* the queries of the model that are ID-like, and for which client
      /\ topk_is_id_like(s_query) <=>
           s_query \in {<<"l", "e", "i", " ", "1", "2">>,
                       <<"P", "o", "r", "t", "a", "r", "i", "a", " ", "2", "7", "7", "/", "2", "0", "2", "0">>,
                       <<"R", "e", "s", "o", "l", "u", "c,", "a~", "o", " ", "1", "2">>}
      /\ llm_is_id_like(s_query) <=>
           s_query \in {<<"P", "o", "r", "t", "a", "r", "i", "a", " ", "2", "7", "7", "/", "2", "0", "2", "0">>}

\* an ID-like query on two collections: the keyword strategy answers the
\* first, and yields nothing on the second, where the hybrid strategy follows
C10_Witness ==
  /\ s_backend.client = "topk_client"
  /\ s_pc = "done"
  /\ topk_is_id_like(s_query)
  /\ ~llm_is_id_like(s_query)
  /\ Len(s_trace) = 3
  /\ s_trace[1] = [col |-> "Lei", strategy |-> "keyword", n |-> 2]
  /\ s_trace[2] = [col |-> "Portaria", strategy |-> "keyword", n |-> 0]
  /\ s_trace[3] = [col |-> "Portaria", strategy |-> "hybrid", n |-> 1]

\* the queries sent for a collection, in order
CallsOn(name) == SelectSeq(s_calls, LAMBDA c : c.col = name)

\* a collection fails when one of the queries sent for it raised
Failing(name) == \E i \in 1..Len(s_calls) : s_calls[i].col = name /\ s_calls[i].answer.raised

\* the rows the service gave last for a collection (none when it was not asked)
LastRows(name) ==
  IF CallsOn(name) = <<>> THEN <<>>
  ELSE CallsOn(name)[Len(CallsOn(name))].answer.rows

\* the rows of an answer that have a non-blank excerpt
UsableRows(rows) ==
  SelectSeq(rows, LAMBDA r : Strip(r.ementa) # <<>> \/ Strip(r.texto) # <<>>)

\* C11, as stated: a backend error while querying a collection is treated as
\* zero hits for that collection (a collection one of whose queries raised is
\* not in the result), the error never leaves search_topk_multi, and the
\* result contains the hits of every collection none of whose queries raised.
C11_BackendErrorMeansZeroHits ==
  s_backend.client = "topk_client" =>
    /\ s_pc # "raised"
    /\ \A j \in 1..Len(Searched) :
          LET name == Searched[j]
              rows == LastRows(name)
          IN  /\ Failing(name) => name \notin DOMAIN s_output
              /\ (~Failing(name) /\ UsableRows(rows) # <<>>) =>
                    /\ name \in DOMAIN s_output
                    /\ s_output[name] =
                         Take(topk_dedupe(Stamp(Sane(NormalizeAll(rows)), name)), s_k)

\* C11, amended: a backend error never leaves search_topk_multi: the search
\* goes through every collection and returns.  The query that raised gives no
\* hit: after a failing keyword query the hybrid query is made, after a
\* failing hybrid query the semantic query is made and its hits count, and a
\* collection all of whose queries raised is not in the result.  Every
\* collection none of whose queries raised is in the result with the hits the
\* service gave for it (when one of them is usable).
C11_BackendErrorNeverPropagates ==
  s_backend.client = "topk_client" =>
    /\ s_pc # "raised"
    /\ \A i \in 1..Len(s_calls) :
          s_calls[i].col \in Range(Searched)
    /\ \A j \in 1..Len(Searched) :
          LET name == Searched[j]
              on   == CallsOn(name)
              rows == LastRows(name)
          IN  /\ (\A i \in 1..Len(on) : on[i].answer.raised)
                    => name \notin DOMAIN s_output
              /\ \A i \in 1..(Len(on) - 1) :
                    /\ on[i].answer.raised \/ on[i].answer.rows = <<>>
                    /\ on[i].strategy = "keyword" => on[i + 1].strategy = "hybrid"
                    /\ on[i].strategy = "hybrid" =>
                          (on[i].answer.raised /\ on[i + 1].strategy = "semantic")
              /\ (on # <<>> /\ on[Len(on)].answer.raised)
                    => on[Len(on)].strategy = "semantic"
              /\ UsableRows(rows) # <<>> =>
                    /\ name \in DOMAIN s_output
                    /\ s_output[name] =
                         Take(topk_dedupe(Stamp(Sane(NormalizeAll(rows)), name)), s_k)
                    /\ \A i \in 1..Len(s_output[name]) :
                          \E r \in 1..Len(rows) :
                             /\ s_output[name][i].doc_id = rows[r].doc_id
                             /\ s_output[name][i].titulo = rows[r].titulo

\* the first collection fails (both of its queries raise, as does the semantic
\* fallback), the second answers and its hits are returned
C11_Witness ==
  /\ s_backend.client = "topk_client"
  /\ s_pc = "done"
  /\ Failing("Lei")
  /\ Len(CallsOn("Lei")) = 3
  /\ \A i \in 1..3 : CallsOn("Lei")[i].answer.raised
  /\ ~Failing("Portaria")
  /\ DOMAIN s_output = {"Portaria"}
  /\ Len(s_output["Portaria"]) = 2

-----------------------------------------------------------------------------
(* The similarity thresholds as functions of the threshold (app.py)        *)

\* bound of the model: the most hits retrieved
MaxThrHits == 3

\* thresholds, in hundredths: negative, 0 (which autorag_search reads as "no
\* threshold"), below, at and above the defaults
Thresholds == {-3, 0, CF_AUTORAG_SEARCH_THRESHOLD, RAG_MIN_SIM, 40}

\* the hits of one retrieval: position and score
ThrHitLists ==
  {[i \in 1..Len(f) |-> [id |-> i, score |-> f[i]]] :
     f \in UNION {[1..n -> ScoreValues] : n \in 0..MaxThrHits}}

\* mutant: the comparison is turned round
Gate_Below(snippets, min_sim) == SelectSeq(snippets, LAMBDA s : s.score <= min_sim)

\* ask_ai_with_context, app.py:584, RAG_MIN_SIM being the value of the
\* environment variable (app.py:46)
Gate(snippets, min_sim) == SelectSeq(snippets, LAMBDA s : s.score >= min_sim)

ThrInit ==
  /\ AppIdle /\ BotIdle /\ DedupeIdle /\ SearchIdle /\ MemIdle /\ PrmIdle /\ SynIdle /\ SendIdle /\ ChkIdle /\ NrmIdle /\ CmpIdle /\ RddIdle
  /\ t_hits \in ThrHitLists
  /\ t_lo \in Thresholds
  /\ t_hi \in {t \in Thresholds : t >= t_lo}
  /\ t_acc = <<>>
  /\ t_pc = "input"

\* the same hits filtered under the two thresholds, by the local gate and by
\* the threshold filter of autorag_search
ApplyThresholds ==
  /\ t_pc = "input"
  /\ t_acc' = [local_lo   |-> Gate(t_hits, t_lo),
               local_hi   |-> Gate(t_hits, t_hi),
               autorag_lo |-> ThresholdFilter(t_hits, t_lo),
               autorag_hi |-> ThresholdFilter(t_hits, t_hi)]
  /\ t_pc' = "done"
  /\ UNCHANGED <<t_hits, t_lo, t_hi>>
  /\ thr_frame

ThrNext == ApplyThresholds

SpecThreshold == ThrInit /\ [][ThrNext]_vars

\* C12, as stated: for all thresholds t1 <= t2 and the same hits, the hits
\* accepted with t2 are among those accepted with t1, in the local gate and
\* in the threshold filter of autorag_search.
C12_RaisingThresholdShrinks ==
  t_pc = "done" =>
    /\ Range(t_acc.local_hi) \subseteq Range(t_acc.local_lo)
    /\ Range(t_acc.autorag_hi) \subseteq Range(t_acc.autorag_lo)

\* C12, amended: the same for the local gate, and for the filter of
\* autorag_search when the thresholds are not negative; there a threshold of
\* 0 switches the filter off (every hit is accepted, also one with a score
\* below 0), so that going from a negative threshold to 0 can add hits.
C12_RaisingNonNegativeThresholdShrinks ==
  t_pc = "done" =>
    /\ Range(t_acc.local_hi) \subseteq Range(t_acc.local_lo)
    /\ t_lo >= 0 => Range(t_acc.autorag_hi) \subseteq Range(t_acc.autorag_lo)
    /\ t_lo # 0 => t_acc.autorag_lo = t_acc.local_lo
    /\ t_lo = 0 => t_acc.autorag_lo = t_hits

\* the threshold is raised from 0 and the accepted set shrinks, in both filters
C12_Witness ==
  /\ t_pc = "done"
  /\ t_lo = 0
  /\ t_hi = RAG_MIN_SIM
  /\ Len(t_hits) = 3
  /\ Len(t_acc.local_lo) = 2
  /\ Len(t_acc.autorag_lo) = 3
  /\ Len(t_acc.local_hi) = 1
  /\ t_acc.autorag_hi = t_acc.local_hi

-----------------------------------------------------------------------------
(* The empty model output (checked under SpecApp)                          *)

\* a completion returned and its text, stripped, is empty
EmptyModelOutput ==
  producer \in {"ask_ai", "grounded", "generate"} /\ model_out = <<>>

\* C13: whenever the model output is empty or only white space, the answer
\* handed to the transport is not the empty string and the text delivered to
\* the user is the fixed message "Nao consegui gerar uma resposta agora. ..."
\* (bot.py:288).
C13_EmptyOutputGetsFixedMessage ==
  EmptyModelOutput =>
    /\ ai_answer # <<>>
    /\ (pc = "done" /\ ~raised) => Flatten(sent) = MSG_BOT_EMPTY

-----------------------------------------------------------------------------
(* memory.py: RedisMemory, and pmpr-bot-wa/memory.py: Memory               *)

\* bounds of the model: the largest MAX_MSGS / max_msgs, and how many add
\* operations are made
MaxMsgs == 2
MaxAdds == 4

MemUsers == {"u1", "u2"}

\* the messages passed to add: a text of the user, a text of the assistant
\* with white space around it, a blank text
MemMessages ==
  { [role |-> "user", text |-> <<"a">>],
    [role |-> "assistant", text |-> <<" ", "b", " ">>],
    [role |-> "user", text |-> <<" ">>] }

\* json.dumps(m) and json.loads(x), memory.py:46 and 54: the stored form of a
\* message is its two fields in a fixed order
json_dumps(m) == <<m.role, m.content>>
json_loads(x) == [role |-> x[1], content |-> x[2]]

\* LTRIM key 0 stop and LRANGE key 0 stop, for stop >= 0: the elements at the
\* indices 0..stop
FirstUpTo(list, stop) == SubSeq(list, 1, Min(stop + 1, Len(list)))

\* mutant: the list is trimmed at its other end, the oldest messages stay
RedisAppend_KeepOldest(list, m, max_msgs) ==
  IF Len(list) >= max_msgs THEN list ELSE <<json_dumps(m)>> \o list

\* RedisMemory._append, memory.py:44-50, on the list of the user's key: LPUSH
\* puts the message at the head, LTRIM keeps the indices 0..MAX_MSGS-1
RedisAppend(list, m, max_msgs) ==
  FirstUpTo(<<json_dumps(m)>> \o list, max_msgs - 1)

\* RedisMemory.get_context, memory.py:52-54
RedisGetContext(list, max_msgs) ==
  LET data == FirstUpTo(list, max_msgs - 1)
  IN  [i \in 1..Len(data) |-> json_loads(data[Len(data) + 1 - i])]

\* mutant: a full deque refuses the new message
MemoryAppend_DropNew(dq, item, max_msgs) ==
  IF Len(dq) >= max_msgs THEN dq ELSE Append(dq, item)

\* deque(maxlen=max_msgs).append(msg), pmpr-bot-wa/memory.py:8 and 11
MemoryAppend(dq, item, max_msgs) ==
  IF Len(dq) >= max_msgs THEN Tail(dq) \o <<item>> ELSE Append(dq, item)

\* Memory.get_context, pmpr-bot-wa/memory.py:13-16
MemoryGetContext(dq) == IF dq = <<>> THEN <<>> ELSE Join(<<"\n">>, dq)

MemInit ==
  /\ AppIdle /\ BotIdle /\ DedupeIdle /\ SearchIdle /\ ThrIdle /\ PrmIdle /\ SynIdle /\ SendIdle /\ ChkIdle /\ NrmIdle /\ CmpIdle /\ RddIdle
  /\ m_max \in 1..MaxMsgs
  /\ m_redis = [u \in MemUsers |-> <<>>]
  /\ m_data = [u \in MemUsers |-> <<>>]
  /\ m_added = [u \in MemUsers |-> <<>>]
  /\ m_got = [user |-> "", redis |-> <<>>, memory |-> <<>>]
  /\ m_pc = "ready"

\* RedisMemory.add_user_msg / add_assistant_msg, memory.py:35-50, and
\* Memory.add_msg, pmpr-bot-wa/memory.py:10-11, for the same user and text
MemAdd(user, role, text) ==
  /\ m_pc \in {"ready", "got"}
  /\ Len(m_added["u1"]) + Len(m_added["u2"]) < MaxAdds
  /\ LET m == [role |-> role, content |-> Strip(text)]
     IN  m_redis' = IF m.content = <<>> THEN m_redis
                    ELSE [m_redis EXCEPT ![user] = RedisAppend(m_redis[user], m, m_max)]
  /\ m_data' = [m_data EXCEPT ![user] = MemoryAppend(m_data[user], text, m_max)]
  /\ m_added' = [m_added EXCEPT ![user] = Append(@, [role |-> role, text |-> text])]
  /\ m_pc' = "ready"
  /\ UNCHANGED <<m_max, m_got>>
  /\ mem_frame

\* RedisMemory.get_context, memory.py:52-54, and Memory.get_context,
\* pmpr-bot-wa/memory.py:13-16
MemGetContext(user) ==
  /\ m_pc = "ready"
  /\ m_got' = [user   |-> user,
               redis  |-> RedisGetContext(m_redis[user], m_max),
               memory |-> MemoryGetContext(m_data[user])]
  /\ m_pc' = "got"
  /\ UNCHANGED <<m_max, m_redis, m_data, m_added>>
  /\ mem_frame

MemNext ==
  \/ \E u \in MemUsers, a \in MemMessages : MemAdd(u, a.role, a.text)
  \/ \E u \in MemUsers : MemGetContext(u)

SpecMemory == MemInit /\ [][MemNext]_vars

\* the last n elements of a sequence
LastN(s, n) == SubSeq(s, Len(s) - Min(n, Len(s)) + 1, Len(s))

\* the messages of a user that RedisMemory records: those with a text that is
\* not blank, with the white space around the text removed
Recorded(user) ==
  LET kept == SelectSeq(m_added[user], LAMBDA a : Strip(a.text) # <<>>)
  IN  [i \in 1..Len(kept) |-> [role |-> kept[i].role, content |-> Strip(kept[i].text)]]

-----------------------------------------------------------------------------
(* utils/prompt.py: build_prompt, and app.py: build_context_snippets and   *)
(* the system prompt of ask_ai_with_context                                *)

\* the fixed texts of utils/prompt.py
PromptTexts ==
  [
    \* utils/prompt.py:67
    no_history |->
      <<"S","e","m"," ","h","i","s","t","o'","r","i","c","o"," ","r","e","l","e","v","a",
        "n","t","e",".">>,
    \* utils/prompt.py:117-125
    rules_objetivo |->
      <<"I","n","s","t","r","u","c,","o~","e","s"," ","(","m","o","d","o"," ","O","B","J",
        "E","T","I","V","O",")",":","\n","1",")"," ","R","e","s","p","o","n","d","a"," ",
        "e","m"," ","n","o"," ","m","a'","x","i","m","o"," ","3"," ","l","i","n","h","a",
        "s",","," ","d","i","r","e","t","o"," ","a","o"," ","p","o","n","t","o",".","\n",
        "2",")"," ","B","a","s","e","i","e","-","s","e"," ","S","O","M","E","N","T","E"," ",
        "n","o","s"," ","t","r","e","c","h","o","s"," ","d","o"," ","c","o","n","t","e","x",
        "t","o"," ","--"," ","n","a~","o"," ","i","n","v","e","n","t","e"," ","a","r","t",
        "i","g","o","s",","," ","i","n","c","i","s","o","s",","," ","n","u'","m","e","r",
        "o","s"," ","o","u"," ","d","a","t","a","s",".","\n","3",")"," ","S","e"," ","h",
        "o","u","v","e","r"," ","c","o","n","f","l","i","t","o"," ","e","n","t","r","e"," ",
        "t","r","e","c","h","o","s",","," ","p","r","i","o","r","i","z","e"," ","o"," ","d",
        "o","c","u","m","e","n","t","o"," ","M","A","I","S"," ","R","E","C","E","N","T","E",
        " ","p","e","l","a"," ","d","a","t","a",".","\n","4",")"," ","S","e"," ","a"," ",
        "r","e","s","p","o","s","t","a"," ","n","a~","o"," ","e","s","t","i","v","e","r",
        " ","n","o","s"," ","t","r","e","c","h","o","s",","," ","d","i","g","a"," ","q","u",
        "e"," ","n","a~","o"," ","l","o","c","a","l","i","z","o","u"," ","n","o"," ","a",
        "c","e","r","v","o"," ","a","t","u","a","l",".","\n","5",")"," ","A","o"," ","f",
        "i","n","a","l",","," ","i","n","c","l","u","a"," ","U","M","A"," ","U'","N","I",
        "C","A"," ","c","i","t","a","c,","a~","o"," ","n","e","s","t","e"," ","f","o","r",
        "m","a","t","o"," ","e","x","a","t","o",":"," ","N","o","m","e"," ","d","o"," ","d",
        "o","c","u","m","e","n","t","o",","," ","n","o_"," ","X","X","X",","," ","a","s",
        "s","u","n","t","o",","," ","D","D","/","M","M","/","A","A","A","A",".","\n","6",
        ")"," ","N","u","n","c","a"," ","c","i","t","e"," ","d","o","c","u","m","e","n","t",
        "o"," ","q","u","e"," ","N","A~","O"," ","e","s","t","e","j","a"," ","l","i","s",
        "t","a","d","o"," ","n","o"," ","b","l","o","c","o"," ","d","e"," ","c","o","n","t",
        "e","x","t","o",".","\n">>,
    \* utils/prompt.py:106-115
    rules_explicar |->
      <<"I","n","s","t","r","u","c,","o~","e","s"," ","(","m","o","d","o"," ","E","X","P",
        "L","I","C","A","R","/","D","E","T","A","L","H","A","R",")",":","\n","1",")"," ",
        "E","x","p","l","i","q","u","e"," ","c","o","m"," ","c","l","a","r","e","z","a",",",
        " ","p","o","d","e","n","d","o"," ","u","s","a","r"," ","a","t","e'"," ","1","0",
        " ","l","i","n","h","a","s",".","\n","2",")"," ","B","a","s","e","i","e","-","s",
        "e"," ","S","O","M","E","N","T","E"," ","n","o","s"," ","t","r","e","c","h","o","s",
        " ","d","o"," ","c","o","n","t","e","x","t","o"," ","--"," ","n","a~","o"," ","i",
        "n","v","e","n","t","e"," ","a","r","t","i","g","o","s",","," ","i","n","c","i","s",
        "o","s",","," ","n","u'","m","e","r","o","s"," ","o","u"," ","d","a","t","a","s",
        ".","\n","3",")"," ","S","e"," ","h","o","u","v","e","r"," ","c","o","n","f","l",
        "i","t","o"," ","e","n","t","r","e"," ","t","r","e","c","h","o","s",","," ","p","r",
        "i","o","r","i","z","e"," ","o"," ","d","o","c","u","m","e","n","t","o"," ","M","A",
        "I","S"," ","R","E","C","E","N","T","E"," ","p","e","l","a"," ","d","a","t","a",".",
        "\n","4",")"," ","S","e"," ","a"," ","r","e","s","p","o","s","t","a"," ","n","a~",
        "o"," ","e","s","t","i","v","e","r"," ","n","o","s"," ","t","r","e","c","h","o","s",
        ","," ","d","i","g","a"," ","q","u","e"," ","n","a~","o"," ","l","o","c","a","l",
        "i","z","o","u"," ","n","o"," ","a","c","e","r","v","o"," ","a","t","u","a","l",".",
        "\n","5",")"," ","I","n","c","l","u","a"," ","e","x","e","m","p","l","o","s"," ",
        "p","r","a'","t","i","c","o","s",","," ","c","o","n","t","e","x","t","o","/","o",
        "b","j","e","t","i","v","o"," ","d","a"," ","n","o","r","m","a"," ","e"," ","p","o",
        "s","s","i'","v","e","i","s"," ","c","o","n","s","e","q","u","e^","n","c","i","a",
        "s"," ","a","d","m","i","n","i","s","t","r","a","t","i","v","a","s"," ","q","u","a",
        "n","d","o"," ","a","p","l","i","c","a'","v","e","l",".","\n","6",")"," ","A","o",
        " ","f","i","n","a","l",","," ","i","n","c","l","u","a"," ","U","M","A"," ","U'",
        "N","I","C","A"," ","c","i","t","a","c,","a~","o"," ","n","e","s","t","e"," ","f",
        "o","r","m","a","t","o"," ","e","x","a","t","o",":"," ","N","o","m","e"," ","d","o",
        " ","d","o","c","u","m","e","n","t","o",","," ","n","o_"," ","X","X","X",","," ",
        "a","s","s","u","n","t","o",","," ","D","D","/","M","M","/","A","A","A","A",".",
        "\n","7",")"," ","N","u","n","c","a"," ","c","i","t","e"," ","d","o","c","u","m",
        "e","n","t","o"," ","q","u","e"," ","N","A~","O"," ","e","s","t","e","j","a"," ",
        "l","i","s","t","a","d","o"," ","n","o"," ","b","l","o","c","o"," ","d","e"," ","c",
        "o","n","t","e","x","t","o",".","\n">>,
    \* utils/prompt.py:131
    history_heading |->
      <<"H","i","s","t","o'","r","i","c","o"," ","r","e","l","e","v","a","n","t","e"," ",
        "(","u'","l","t","i","m","a","s"," ","i","n","t","e","r","a","c,","o~","e","s"," ",
        "d","o"," ","u","s","u","a'","r","i","o",")",":","\n">>,
    \* utils/prompt.py:132
    context_heading |->
      <<"C","o","n","t","e","x","t","o"," ","(","t","r","e","c","h","o","s"," ","r","e","c",
        "u","p","e","r","a","d","o","s",")",":","\n">>,
    \* utils/prompt.py:133
    question_heading |->
      <<"P","e","r","g","u","n","t","a"," ","d","o"," ","u","s","u","a'","r","i","o",":",
        "\n">>,
    \* utils/prompt.py:98
    no_passage |->
      <<"N","E","N","H","U","M"," ","T","R","E","C","H","O"," ","E","N","C","O","N","T","R",
        "A","D","O",".">>,
    \* utils/prompt.py:56, for a passage without meta, score and source_uri
    passage_header |->
      <<"[","T","I","T","L","E",":","D","o","c","u","m","e","n","t","o"," ","|"," ","N","U",
        "M",":","s","/"," ","n","o_"," ","|"," ","A","S","S","U","N","T","O",":","a","s",
        "s","u","n","t","o"," ","n","a~","o"," ","i","n","f","o","r","m","a","d","o"," ",
        "|"," ","D","A","T","A",":","s","/"," ","d","a","t","a"," ","|"," ","S","C","O","R",
        "E",":","s","/","s","c","o","r","e"," ","|"," ","S","R","C",":","]","\n">>,
    \* utils/prompt.py:77-80
    gatilhos |->
      { <<"f","a","l","e"," ","m","a","i","s">>,
        <<"d","i","s","c","o","r","r","a">>,
        <<"e","x","p","l","i","q","u","e"," ","m","e","l","h","o","r">>,
        <<"e","x","p","l","i","q","u","e">>,
        <<"d","e","t","a","l","h","e">>,
        <<"a","p","r","o","f","u","n","d">>,
        <<"q","u","e","r","o"," ","m","a","i","s"," ","d","e","t","a","l","h","e","s">>,
        <<"c","o","n","t","e","x","t","o">>,
        <<"p","o","r"," ","q","u","e^">>,
        <<"p","o","r","q","u","e","?">> } ]

\* the fixed texts of ask_ai_with_context, app.py:587-612, and SYSTEM_PROMPT
RagTexts ==
  [
    \* app.py:169-181
    SYSTEM_PROMPT |->
      <<"V","o","c","e^"," ","e'"," ","o"," ","B","o","t","P","M","P","R",","," ","a","s",
        "s","i","s","t","e","n","t","e"," ","p","a","r","a"," ","p","o","l","i","c","i","a",
        "i","s"," ","m","i","l","i","t","a","r","e","s"," ","n","o"," ","W","h","a","t","s",
        "A","p","p","."," ","R","e","s","p","o","n","d","a"," ","S","E","M"," ","r","o","d",
        "e","i","o","s",","," ","e","m"," ","p","o","r","t","u","g","u","e^","s"," ","d",
        "o"," ","B","r","a","s","i","l",","," ","n","o"," ","t","o","m"," ","o","p","e","r",
        "a","c","i","o","n","a","l",".","\n","\n","R","E","G","R","A","S"," ","D","E"," ",
        "E","S","T","I","L","O",":","\n","1",")"," ","N","o"," ","m","a'","x","i","m","o",
        " ","2","0"," ","l","i","n","h","a","s"," ","(","o","u"," ","2","0"," ","p","a","s",
        "s","o","s"," ","n","u","m","e","r","a","d","o","s",")",".","\n","2",")"," ","F",
        "r","a","s","e","s"," ","c","u","r","t","a","s",","," ","v","o","z"," ","a","t","i",
        "v","a",","," ","s","e","m"," ","d","e","s","c","u","l","p","a","s",".","\n","3",
        ")"," ","U","s","e"," ","*","n","e","g","r","i","t","o","*"," ","s","o'"," ","p",
        "a","r","a"," ","t","e","r","m","o","s","-","c","h","a","v","e",".","\n","4",")",
        " ","Q","u","a","n","d","o"," ","u'","t","i","l",","," ","l","i","s","t","e"," ",
        "n","o"," ","m","a'","x","i","m","o"," ","3"," ","p","o","n","t","o","s"," ","(",
        "(o)",")","."," ","E","x","c","e","c,","a~","o",":"," ","s","e"," ","a"," ","p","e",
        "r","g","u","n","t","a"," ","p","e","d","i","r"," ","p","a","r","a"," ","*","l","i",
        "s","t","a","r","/","e","n","u","m","e","r","e","/","q","u","a","i","s"," ","s",
        "a~","o","/","r","e","l","a","c","i","o","n","e","*",","," ","p","o","d","e"," ",
        "l","i","s","t","a","r"," ","T","O","D","O","S"," ","o","s"," ","i","t","e","n","s",
        " ","r","e","l","e","v","a","n","t","e","s",".","\n","5",")"," ","F","a","c,","a",
        " ","1"," ","p","e","r","g","u","n","t","a"," ","d","e"," ","e","s","c","l","a","r",
        "e","c","i","m","e","n","t","o"," ","a","p","e","n","a","s"," ","s","e"," ","f","a",
        "l","t","a","r"," ","a","l","g","o"," ","E","S","S","E","N","C","I","A","L",".",
        "\n","6",")"," ","S","e"," ","c","i","t","a","r"," ","n","o","r","m","a","/","p",
        "r","o","c","e","d","i","m","e","n","t","o",","," ","c","i","t","e"," ","s","i","g",
        "l","a","/","a","t","o"," ","e"," ","a","r","t","i","g","o"," ","q","u","a","n","d",
        "o"," ","d","i","s","p","o","n","i'","v","e","l"," ","n","o"," ","c","o","n","t",
        "e","x","t","o"," ","(","e","x",".",":"," ","[","1","]",")",".","\n","7",")"," ",
        "S","e"," ","N","A~","O"," ","h","o","u","v","e","r"," ","b","a","s","e"," ","n",
        "o","s"," ","t","r","e","c","h","o","s"," ","f","o","r","n","e","c","i","d","o","s",
        ","," ","d","i","g","a"," ","c","l","a","r","a","m","e","n","t","e"," ","q","u","e",
        " ","n","a~","o"," ","e","n","c","o","n","t","r","o","u"," ","n","o","s"," ","d",
        "o","c","u","m","e","n","t","o","s"," ","e"," ","p","e","c,","a"," ","o"," ","t",
        "e","r","m","o","/","n","o_"," ","d","o"," ","a","t","o","."," ","N","A~","O"," ",
        "i","n","v","e","n","t","e",".","\n">>,
    \* app.py:608-612
    rag_rules |->
      <<"\n","\n","V","o","c","e^"," ","T","E","M"," ","a","c","e","s","s","o"," ","a"," ",
        "t","r","e","c","h","o","s"," ","d","e"," ","d","o","c","u","m","e","n","t","o","s",
        " ","o","f","i","c","i","a","i","s",".","\n","R","E","G","R","A","S"," ","R","A",
        "G",":","\n","-"," ","R","e","s","p","o","n","d","a"," ","S","O","M","E","N","T",
        "E"," ","c","o","m"," ","b","a","s","e"," ","n","o","s"," ","t","r","e","c","h","o",
        "s"," ","a","b","a","i","x","o",".","\n","-"," ","C","i","t","e"," ","[","n","]",
        " ","r","e","f","e","r","e","n","t","e"," ","a","o","(","s",")"," ","t","r","e","c",
        "h","o","(","s",")"," ","u","s","a","d","o","(","s",")",".","\n","-"," ","S","e",
        " ","N","A~","O"," ","h","o","u","v","e","r"," ","e","v","i","d","e^","n","c","i",
        "a"," ","s","u","f","i","c","i","e","n","t","e",","," ","r","e","s","p","o","n","d",
        "a"," ","l","i","t","e","r","a","l","m","e","n","t","e",":"," ","'","N","a~","o",
        " ","e","n","c","o","n","t","r","e","i"," ","i","s","s","o"," ","n","o","s"," ","d",
        "o","c","u","m","e","n","t","o","s",".","'","\n">>,
    \* app.py:602-605
    style_extra |->
      <<"\n","\n","E","X","C","E","C,","A~","O"," ","D","E"," ","L","I","S","T","A",":",
        "\n","-"," ","A"," ","p","e","r","g","u","n","t","a"," ","p","e","d","e"," ","u",
        "m","a"," ","L","I","S","T","A","."," ","L","i","s","t","e"," ","T","O","D","O","S",
        " ","o","s"," ","i","t","e","n","s"," ","e","n","c","o","n","t","r","a","d","o","s",
        " ","n","o","s"," ","t","r","e","c","h","o","s"," ","(","1",".",","," ","2",".",",",
        " ","3",".",","," ",".",".",".",")",","," ","s","e","m"," ","l","i","m","i","t","e",
        " ","d","e"," ","l","i","n","h","a","s",".","\n">>,
    \* app.py:587-591
    list_terms |->
      { <<"c","o","n","d","e","c","o","r","a","c","a","o">>,
        <<"c","o","n","d","e","c","o","r","a","c","o","e","s">>,
        <<"m","e","d","a","l","h","a">>,
        <<"m","e","d","a","l","h","a","s">>,
        <<"a","t","r","i","b","u","i","c","a","o">>,
        <<"a","t","r","i","b","u","i","c","o","e","s">>,
        <<"c","o","m","p","e","t","e","n","c","i","a">>,
        <<"c","o","m","p","e","t","e","n","c","i","a","s">>,
        <<"l","i","s","t","a">>,
        <<"e","n","u","m","e","r","e">>,
        <<"q","u","a","i","s"," ","s","a","o">>,
        <<"r","e","l","a","c","i","o","n","e">>,
        <<"c","i","t","e">> } ]

\* bounds of the model: the longest history and the most passages
MaxHist == 6
MaxItems == 2

\* the default of max_chars, app.py:380
CONTEXT_MAX_CHARS == 1400

\* the i-th turn of a history: "t1", "t2", ...
Turn(i) == <<"t", DigitChars[i]>>

\* the histories: turns in order, at most one of them blank
PromptHistories ==
  { [i \in 1..n |-> IF i = b THEN <<" ">> ELSE Turn(i)] :
      <<n, b>> \in { x \in (0..MaxHist) \X (0..MaxHist) : x[2] <= x[1] } }

\* a content of n characters whose characters max_chars-1 and max_chars are
\* blanks
ContentOf(n) ==
  [i \in 1..n |-> IF i \in {CONTEXT_MAX_CHARS - 1, CONTEXT_MAX_CHARS} THEN " " ELSE "x"]

\* the retrieved passages: a short one, one of exactly max_chars characters,
\* one that is longer
PromptPassages ==
  { [source |-> <<"d", "/", "a">>, content |-> <<" ", "a", "b">>],
    [source |-> <<"b">>, content |-> ContentOf(CONTEXT_MAX_CHARS)],
    [source |-> <<"d", "/", "c">>, content |-> ContentOf(CONTEXT_MAX_CHARS + 2)] }

PromptQueries ==
  { <<"f", "e", "r", "i", "a", "s">>,
    <<"E", "x", "p", "l", "i", "q", "u", "e", " ", "a", " ", "l", "e", "i">>,
    <<"q", "u", "a", "i", "s", " ", "s", "a", "o", " ", "a", "s", " ", "l", "e", "i", "s">> }

\* _format_history, utils/prompt.py:61-69
format_history(history) ==
  IF history = <<>> THEN PromptTexts.no_history
  ELSE LET kept  == SelectSeq(history, LAMBDA h : Strip(h) # <<>>)
           lines == [i \in 1..Len(kept) |-> <<"-", " ">> \o Strip(kept[i])]
       IN  Join(<<"\n">>, SubSeq(lines, 1, Min(5, Len(lines))))

\* _format_passage, utils/prompt.py:39-58, for a passage that has a snippet
\* and no meta, score or source_uri
format_passage(p) == PromptTexts.passage_header \o Strip(p.content) \o <<"\n">>

\* the rules block of build_prompt, utils/prompt.py:103-125, with
\* _needs_deepening, utils/prompt.py:72-81
Rules(user_query) ==
  IF \E g \in PromptTexts.gatilhos : Contains(g, Lower(user_query))
  THEN PromptTexts.rules_explicar
  ELSE PromptTexts.rules_objetivo

\* the context block of build_prompt, utils/prompt.py:97-100
context_block(passages) ==
  IF passages = <<>> THEN PromptTexts.no_passage
  ELSE Join(<<"\n", "-", "-", "-", "\n">>,
            [i \in 1..Len(passages) |-> format_passage(passages[i])])

\* build_prompt, utils/prompt.py:88-135
build_prompt(user_query, passages, history) ==
  Rules(user_query) \o <<"\n">>
    \o PromptTexts.history_heading \o format_history(history) \o <<"\n", "\n">>
    \o PromptTexts.context_heading \o context_block(passages) \o <<"\n", "\n">>
    \o PromptTexts.question_heading \o user_query \o <<"\n">>

\* os.path.basename, app.py:386
basename(path) ==
  IF \A i \in 1..Len(path) : path[i] # "/" THEN path
  ELSE SubSeq(path, 1 + CHOOSE i \in 1..Len(path) :
                          path[i] = "/" /\ \A j \in (i + 1)..Len(path) : path[j] # "/",
              Len(path))

\* mutant: the content is never cut
Cut_Never(content, max_chars) == content

\* app.py:384-385: a content longer than max_chars is cut and gets an ellipsis
Cut(content, max_chars) ==
  IF Len(content) > max_chars
  THEN RStrip(SubSeq(content, 1, max_chars)) \o <<"...">>
  ELSE content

\* build_context_snippets, app.py:380-387
build_context_snippets(items, max_chars) ==
  Join(<<"\n", "\n">>,
       [i \in 1..Len(items) |->
          <<"[", DigitChars[i], "]", " ", "F", "o", "n", "t", "e", ":", " ">>
            \o basename(items[i].source) \o <<"\n">> \o Cut(items[i].content, max_chars)])

\* the system prompt of ask_ai_with_context, app.py:586-615
RagSystem(user_text, context) ==
  LET list_mode   == \E t \in RagTexts.list_terms : Contains(t, Lower(user_text))
      style_extra == IF list_mode THEN RagTexts.style_extra ELSE <<>>
  IN  RagTexts.SYSTEM_PROMPT \o RagTexts.rag_rules \o style_extra \o <<"\n">> \o context

PrmInit ==
  /\ AppIdle /\ BotIdle /\ DedupeIdle /\ SearchIdle /\ ThrIdle /\ MemIdle /\ SynIdle /\ SendIdle /\ ChkIdle /\ NrmIdle /\ CmpIdle /\ RddIdle
  /\ p_query \in PromptQueries
  /\ p_history \in PromptHistories
  /\ p_items \in UNION {[1..n -> PromptPassages] : n \in 0..MaxItems}
  /\ p_hist_block = <<>>
  /\ p_context = <<>>
  /\ p_prompt = <<>>
  /\ p_pc = "ready"

\* build_prompt, utils/prompt.py:88-135
BuildPrompt ==
  /\ p_pc = "ready"
  /\ p_hist_block' = format_history(p_history)
  /\ p_context' = context_block(p_items)
  /\ p_prompt' = build_prompt(p_query, p_items, p_history)
  /\ p_pc' = "prompt"
  /\ UNCHANGED <<p_query, p_history, p_items>>
  /\ prm_frame

\* ask_ai_with_context, app.py:598-615, on the accepted passages
BuildSystem ==
  /\ p_pc = "ready"
  /\ p_items # <<>>
  /\ p_context' = build_context_snippets(p_items, CONTEXT_MAX_CHARS)
  /\ p_prompt' = RagSystem(p_query, p_context')
  /\ p_pc' = "system"
  /\ UNCHANGED <<p_query, p_history, p_items, p_hist_block>>
  /\ prm_frame

PrmNext == BuildPrompt \/ BuildSystem

SpecPrompt == PrmInit /\ [][PrmNext]_vars

\* the lines of the rendered history block
HistoryLines == SplitLines(p_hist_block)

\* the last n turns of the history, one line per turn
LastTurns(n) ==
  LET from == Len(p_history) - Min(n, Len(p_history))
  IN  [i \in 1..(Len(p_history) - from) |-> <<"-", " ">> \o Strip(p_history[from + i])]

\* C15: for any history list the rendered history block has at most 5 lines,
\* and when the history is longer than 5 turns the rendered lines are the
\* last (most recent) 5 turns of the history, one line per turn.
C15_HistoryBlockIsLastTurns ==
  p_pc = "prompt" =>
    /\ Len(HistoryLines) <= 5
    /\ Len(p_history) > 5 => HistoryLines = LastTurns(5)

\* s starts with pre
StartsWith(s, pre) == Len(pre) <= Len(s) /\ SubSeq(s, 1, Len(pre)) = pre

\* the rules block, whole, opens the assembled prompt
RulesBlockKept ==
  /\ p_pc = "prompt" => StartsWith(p_prompt, Rules(p_query))
  /\ p_pc = "system" => StartsWith(p_prompt, RagTexts.SYSTEM_PROMPT \o RagTexts.rag_rules)

\* what the block of ask_ai_with_context holds besides the contents of the
\* passages: the "[i] Fonte: ..." lines and the blank lines between passages
FrameChars ==
  Len(build_context_snippets(
        [i \in 1..Len(p_items) |-> [source |-> p_items[i].source, content |-> <<>>]],
        CONTEXT_MAX_CHARS))

\* the characters of the snippets of the passages
RECURSIVE SnippetChars(_)
SnippetChars(items) ==
  IF items = <<>> THEN 0 ELSE Len(Strip(Head(items).content)) + SnippetChars(Tail(items))

-----------------------------------------------------------------------------
(* synonyms.py: expand_query                                               *)

\* synonyms.py:11
MAX_EXPANSIONS_PER_TERM == 2

\* synonyms.py:31-126. A sigla pattern \bW\b is the word W; a texto pattern is
\* the list of its words, which \s+ separates (the optional tail of a pattern
\* does not change what re.search finds)
SYNONYMS ==
  <<
    [ key        |-> <<"C","P","P">>,
      sigla      |-> <<<<"C","P","P">>>>,
      texto      |-> <<<<<<"C","o","m","i","s","s","a~","o">>, <<"d","e">>, <<"P","r","o","m","o","c,","a~","o">>, <<"d","e">>, <<"P","r","a","c,","a">>>>>>,
      from_sigla |-> <<
                       <<"C","o","m","i","s","s","a~","o"," ","d","e"," ","P","r","o","m","o","c,","a~","o"," ","d","e"," ","P","r","a","c,","a","s">>, 
                       <<"C","o","m","i","s","s","a~","o"," ","d","e"," ","P","r","o","m","o","c,","a~","o"," ","d","e"," ","P","r","a","c,","a">>>>,
      from_texto |-> <<<<"C","P","P">>>> ],
    [ key        |-> <<"C","P","O">>,
      sigla      |-> <<<<"C","P","O">>>>,
      texto      |-> <<<<<<"C","o","m","i","s","s","a~","o">>, <<"d","e">>, <<"P","r","o","m","o","c,","a~","o">>, <<"d","e">>, <<"O","f","i","c","i","a","l">>>>>>,
      from_sigla |-> <<
                       <<"C","o","m","i","s","s","a~","o"," ","d","e"," ","P","r","o","m","o","c,","a~","o"," ","d","e"," ","O","f","i","c","i","a","i","s">>>>,
      from_texto |-> <<<<"C","P","O">>>> ],
    [ key        |-> <<"B","O","U">>,
      sigla      |-> <<<<"B","O","U">>>>,
      texto      |-> <<<<<<"B","o","l","e","t","i","m">>, <<"d","e">>, <<"O","c","o","r","r","e^","n","c","i","a">>, <<"U","n","i","f","i","c","a","d","o">>>>>>,
      from_sigla |-> <<
                       <<"B","o","l","e","t","i","m"," ","d","e"," ","O","c","o","r","r","e^","n","c","i","a"," ","U","n","i","f","i","c","a","d","o">>>>,
      from_texto |-> <<<<"B","O","U">>>> ],
    [ key        |-> <<"T","C","I","P">>,
      sigla      |-> <<<<"T","C","I","P">>>>,
      texto      |-> <<<<<<"T","e","r","m","o">>, <<"C","i","r","c","u","n","s","t","a","n","c","i","a","d","o">>>>>>,
      from_sigla |-> <<
                       <<"T","e","r","m","o"," ","C","i","r","c","u","n","s","t","a","n","c","i","a","d","o"," ","d","e"," ","I","n","f","r","a","c,","a~","o"," ","P","e","n","a","l">>>>,
      from_texto |-> <<<<"T","C","I","P">>>> ],
    [ key        |-> <<"C","I","C","C","M">>,
      sigla      |-> <<<<"C","I","C","C","M">>>>,
      texto      |-> <<<<<<"C","e","n","t","r","o">>, <<"I","n","t","e","g","r","a","d","o">>, <<"d","e">>, <<"C","o","m","a","n","d","o">>, <<"e">>, <<"C","o","n","t","r","o","l","e">>, <<"M","o'","v","e","l">>>>>>,
      from_sigla |-> <<
                       <<"C","e","n","t","r","o"," ","I","n","t","e","g","r","a","d","o"," ","d","e"," ","C","o","m","a","n","d","o"," ","e"," ","C","o","n","t","r","o","l","e"," ","M","o'","v","e","l">>>>,
      from_texto |-> <<<<"C","I","C","C","M">>>> ]
  >>

\* a table whose lists are longer than the cap and hold the same phrase in two
\* spellings
LongListsTable ==
  << [ key        |-> <<"P","M">>,
       sigla      |-> <<<<"P","M">>>>,
       texto      |-> <<<<<<"P","o","l","i","c","i","a">>, <<"M","i","l","i","t","a","r">>>>>>,
       from_sigla |-> << <<"P","o","l","i","c","i","a"," ","M","i","l","i","t","a","r">>,
                         <<"F","o","r","c,","a">>,
                         <<"B","r","i","g","a","d","a">> >>,
       from_texto |-> << <<"P","M">>, <<"p","m"," ">>, <<"P","M","P","R">> >> ],
     [ key        |-> <<"P","M","P","R">>,
       sigla      |-> <<<<"P","M","P","R">>>>,
       texto      |-> <<<<<<"P","o","l","i","c","i","a">>>>>>,
       from_sigla |-> << <<"p","o","l","i","c","i","a"," ","m","i","l","i","t","a","r">> >>,
       from_texto |-> << <<"P","M">> >> ] >>

\* the queries: white space, a sigla or a word, a phrase, white space
SynQueries ==
  { pre \o a \o (IF a # <<>> /\ b # <<>> THEN <<" ">> ELSE <<>>) \o b \o post :
      pre \in {<<>>, <<" ">>},
      a \in { <<>>, <<"C","P","P">>, <<"c","p","p">>, <<"C","P","P","X">>, <<"T","C","I","P">>,
              <<"P","M">>, <<"p","m","p","r">> },
      b \in { <<>>, <<"f","e","r","i","a","s">>,
              <<"C","o","m","i","s","s","a~","o"," ","d","e"," ","P","r","o","m","o","c,","a~","o",
                " ","d","e"," ","P","r","a","c,","a","s">>,
              <<"c","o","m","i","s","s","a~","o"," ","\n","d","e"," ","p","r","o","m","o","c,","a~","o",
                " ","d","e"," ","o","f","i","c","i","a","l">>,
              <<"T","e","r","m","o"," ","C","i","r","c","u","n","s","t","a","n","c","i","a","d","o">>,
              <<"p","o","l","i","c","i","a"," ","m","i","l","i","t","a","r">> },
      post \in {<<>>, <<" ", "\n">>} }

\* re.search(r"\bW\b", q, flags=re.IGNORECASE), synonyms.py:163
sigla_search(w, q) ==
  \E i \in 1..Len(q) :
    LET e == i + Len(w) - 1
    IN  /\ e <= Len(q)
        /\ Lower(SubSeq(q, i, e)) = Lower(w)
        /\ i = 1 \/ ~IsWordChar(q[i - 1])
        /\ e = Len(q) \/ ~IsWordChar(q[e + 1])

\* the words of a texto pattern are found from position i on, with white
\* space between them
RECURSIVE WordsAt(_, _, _)
WordsAt(words, q, i) ==
  LET e == i + Len(Head(words)) - 1
  IN  /\ e <= Len(q)
      /\ Lower(SubSeq(q, i, e)) = Lower(Head(words))
      /\ \/ Len(words) = 1
         \/ \E j \in (e + 2)..Len(q) :
              /\ \A n \in (e + 1)..(j - 1) : IsSpace(q[n])
              /\ WordsAt(Tail(words), q, j)

\* re.search(texto pattern, q, flags=re.IGNORECASE), synonyms.py:164
texto_search(words, q) == \E i \in 1..Len(q) : WordsAt(words, q, i)

\* matched_sigla and matched_texto, synonyms.py:163-164
matched_sigla(entry, q) == \E n \in 1..Len(entry.sigla) : sigla_search(entry.sigla[n], q)
matched_texto(entry, q) == \E n \in 1..Len(entry.texto) : texto_search(entry.texto[n], q)

\* mutant: the lists are not cut
Capped_All(expansions) == expansions

\* expansions[:MAX_EXPANSIONS_PER_TERM], synonyms.py:170 and 176
\* (INCLUDE_SELF_IN_EXPANSIONS is False)
Capped(expansions) ==
  SubSeq(expansions, 1, Min(MAX_EXPANSIONS_PER_TERM, Len(expansions)))

\* mutant: nothing is taken for a duplicate
dedup_keep_order_KeepAll(items) == [i \in 1..Len(items) |-> Strip(items[i])]

\* _dedup_keep_order, synonyms.py:129-141
dedup_keep_order(items) ==
  LET key(t) == Strip(Lower(t))
      idx == SelectSeq([i \in 1..Len(items) |-> i],
                       LAMBDA i : /\ key(items[i]) # <<>>
                                  /\ \A j \in 1..(i - 1) : key(items[j]) # key(items[i]))
  IN  [n \in 1..Len(idx) |-> Strip(items[idx[n]])]

\* the loop of expand_query, synonyms.py:157-178
Extras(table, q) ==
  dedup_keep_order(Flatten(
    [n \in 1..Len(table) |->
       (IF matched_sigla(table[n], q)
        THEN Capped(table[n].from_sigla) ELSE <<>>)
       \o (IF matched_texto(table[n], q)
           THEN Capped(table[n].from_texto) ELSE <<>>)]))

\* mutant: the phrases are appended also when there are none
Appended_Always(q, extras) ==
  q \o <<" ">> \o Join(<<" ">>, [i \in 1..Len(extras) |-> <<"\"">> \o extras[i] \o <<"\"">>])

\* the end of expand_query, synonyms.py:180-184
Appended(q, extras) ==
  IF extras = <<>> THEN q
  ELSE q \o <<" ">> \o Join(<<" ">>, [i \in 1..Len(extras) |-> <<"\"">> \o extras[i] \o <<"\"">>])

\* expand_query, synonyms.py:144-184
expand_query(table, query) ==
  IF Strip(query) = <<>> THEN query
  ELSE Appended(Strip(query), Extras(table, Strip(query)))

SynInit ==
  /\ AppIdle /\ BotIdle /\ DedupeIdle /\ SearchIdle /\ ThrIdle /\ MemIdle /\ PrmIdle /\ SendIdle /\ ChkIdle /\ NrmIdle /\ CmpIdle /\ RddIdle
  /\ y_table \in {SYNONYMS, LongListsTable}
  /\ y_query \in SynQueries
  /\ y_extras = <<>>
  /\ y_out = <<>>
  /\ y_pc = "ready"

\* expand_query, synonyms.py:144-184
ExpandQuery ==
  /\ y_pc = "ready"
  /\ y_extras' = IF Strip(y_query) = <<>> THEN <<>> ELSE Extras(y_table, Strip(y_query))
  /\ y_out' = expand_query(y_table, y_query)
  /\ y_pc' = "returned"
  /\ UNCHANGED <<y_table, y_query>>
  /\ syn_frame

SynNext == ExpandQuery

SpecSynonyms == SynInit /\ [][SynNext]_vars

\* the query matches no pattern of the table
NoPatternMatches ==
  \A n \in 1..Len(y_table) :
    /\ ~matched_sigla(y_table[n], Strip(y_query))
    /\ ~matched_texto(y_table[n], Strip(y_query))

\* C16 as stated: expand_query never raises, and for every input that is
\* empty or matches no synonym pattern it returns the input unchanged, the
\* very same string, leading and trailing white space included.
C16_UnmatchedReturnedUnchanged ==
  (y_pc = "returned" /\ (y_query = <<>> \/ NoPatternMatches)) => y_out = y_query

\* C16, amended: expand_query never raises; an input that is empty or all
\* white space is returned unchanged, and an input that matches no synonym
\* pattern is returned with the white space around it removed.
C16_UnmatchedReturnedStripped ==
  (y_pc = "returned" /\ (y_query = <<>> \/ NoPatternMatches)) =>
    y_out = (IF Strip(y_query) = <<>> THEN y_query ELSE Strip(y_query))

\* an unmatched query with white space around it has been expanded
C16_Witness ==
  /\ y_pc = "returned"
  /\ NoPatternMatches
  /\ Strip(y_query) # <<>>
  /\ y_query[1] = " "
  /\ y_out = Strip(y_query)
  /\ y_out # y_query

\* how many of the appended phrases are among the given expansions
AppendedOf(expansions) ==
  Cardinality({ i \in 1..Len(y_extras) :
                  \E x \in 1..Len(expansions) : y_extras[i] = Strip(expansions[x]) })

\* no two appended phrases are equal but for the case of their letters
NoDuplicatePhrase ==
  \A i, j \in 1..Len(y_extras) : i # j => Lower(y_extras[i]) # Lower(y_extras[j])

C19_AtMostKHits ==
  (s_pc = "done" /\ s_k >= 1) =>
    \A name \in DOMAIN s_output :
      /\ Len(s_output[name]) <= s_k
      /\ \A i \in 1..Len(s_output[name]) : s_output[name][i].trecho # <<>>

\* buscar_topk_multi has gone through two collections, found two different
\* documents in the first, and returned k = 1 hit
C19_Witness ==
  /\ s_pc = "done"
  /\ s_backend.client = "llm_client_multi"
  /\ s_k = 1
  /\ Len(s_trace) = 2
  /\ s_trace[1] = [col |-> "Portaria", strategy |-> "hybrid", n |-> 2]
  /\ s_trace[2].col = "Diretriz"
  /\ s_calls[1].answer.rows[1].doc_id # s_calls[1].answer.rows[2].doc_id
  /\ \A r \in 1..2 : Strip(s_calls[1].answer.rows[r].texto) # <<>>
  /\ Len(s_output["buscar_topk_multi"]) = 1

-----------------------------------------------------------------------------
(* bot.py: enviar_whatsapp                                                 *)

\* bound of the model: the largest max_retries
MaxRetries == 4

\* what a POST to the Graph API gives: a response with a status, or a
\* requests.RequestException
Responses ==
  {[raised |-> TRUE, status |-> 0]}
    \cup [raised : {FALSE}, status : {200, 204, 400, 429, 500, 501, 503, 504, 599}]

\* mutant: every status that is not 2xx is tried again
RetryStatus_Any(status) == TRUE

\* bot.py:203: the statuses that are tried again
RetryStatus(status) == status \in {429, 500, 502, 503, 504}

\* mutant: the wait is not capped
Backoff_Uncapped(attempt) == 2 ^ attempt

\* bot.py:204 and 214: wait = min(2 ** attempt, 10)
Backoff(attempt) == Min(2 ^ attempt, 10)

SendInit ==
  /\ AppIdle /\ BotIdle /\ DedupeIdle /\ SearchIdle /\ ChkIdle /\ NrmIdle /\ CmpIdle /\ RddIdle
  /\ ThrIdle /\ MemIdle /\ PrmIdle /\ SynIdle
  /\ w_ok \in BOOLEAN
  /\ w_max_retries \in 1..MaxRetries
  /\ w_attempt = 0
  /\ w_log = <<>>
  /\ w_result = "none"
  /\ w_pc = "start"

\* enviar_whatsapp, bot.py:177-195: the check of the parameters
EnviarWhatsappEnter ==
  /\ w_pc = "start"
  /\ IF w_ok
     THEN w_pc' = "post" /\ w_attempt' = 1 /\ w_result' = w_result
     ELSE w_pc' = "returned" /\ w_attempt' = w_attempt /\ w_result' = "False"
  /\ UNCHANGED <<w_ok, w_max_retries, w_log>>
  /\ send_frame

\* enviar_whatsapp, bot.py:197-218: one attempt of the loop
Post(resp) ==
  /\ w_pc = "post"
  /\ LET again == resp.raised \/ RetryStatus(resp.status)
         wait  == IF again THEN Backoff(w_attempt) ELSE 0
     IN  /\ w_log' = Append(w_log, [response |-> resp, wait |-> wait])
         /\ IF ~resp.raised /\ 200 <= resp.status /\ resp.status < 300
            THEN w_result' = "True" /\ w_pc' = "returned" /\ w_attempt' = w_attempt
            ELSE IF again /\ w_attempt < w_max_retries
            THEN w_result' = w_result /\ w_pc' = "post" /\ w_attempt' = w_attempt + 1
            ELSE w_result' = "False" /\ w_pc' = "returned" /\ w_attempt' = w_attempt
  /\ UNCHANGED <<w_ok, w_max_retries>>
  /\ send_frame

SendNext == EnviarWhatsappEnter \/ \E resp \in Responses : Post(resp)

SpecSend == SendInit /\ [][SendNext]_vars

\* the i-th attempt was answered, the function waited min(2^i, 10) seconds
\* and, if attempts remained, went on to the next attempt
Retried(i) ==
  /\ w_log[i].wait = Min(2 ^ i, 10)
  /\ i < w_max_retries => (Len(w_log) > i \/ w_pc = "post")

-----------------------------------------------------------------------------
(* app.py: send_text_chunks, and the sending loop of bot.py's webhook      *)

\* bound of the model: the most fragments an answer is cut into
MaxFragments == 4

\* bot.py:290
BOT_CHUNK == 3800

\* the chunk size of a loop: app.py:777 and bot.py:290
ChunkSize(who) == IF who = "app" THEN APP_CHUNK_SIZE ELSE BOT_CHUNK

\* a text of n characters in which the characters that are a chunk apart
\* differ
TextOfLength(n) ==
  [i \in 1..n |-> <<"a", "b", "c", "d", "e", "f", "g">>[(i % 7) + 1]]

\* the answers: empty, one character, and around the multiples of the chunk
\* size
ChunkBodies(who) ==
  { TextOfLength(n) :
      n \in {0, 1} \cup { m * ChunkSize(who) + d :
                            m \in 1..(MaxFragments - 1), d \in {-1, 0, 1} } }

ChunkInit ==
  /\ AppIdle /\ BotIdle /\ DedupeIdle /\ SearchIdle /\ NrmIdle /\ CmpIdle /\ RddIdle
  /\ ThrIdle /\ MemIdle /\ PrmIdle /\ SynIdle /\ SendIdle
  /\ k_who \in {"app", "bot"}
  /\ k_body \in ChunkBodies(k_who)
  /\ k_j = 0
  /\ k_handed = <<>>
  /\ k_ok_all = TRUE
  /\ k_pc = "start"

\* send_text_chunks, app.py:161-162 (body = body or ""), and webhook,
\* bot.py:287-292 (an empty resposta is replaced by the fixed message)
ChunksEnter ==
  /\ k_pc = "start"
  /\ k_body' = IF k_who = "bot" /\ k_body = <<>> THEN MSG_BOT_EMPTY ELSE k_body
  /\ k_j' = 1
  /\ k_pc' = IF Chunks(k_body', ChunkSize(k_who)) = <<>> THEN "done" ELSE "loop"
  /\ UNCHANGED <<k_who, k_handed, k_ok_all>>
  /\ chk_frame

\* send_text_chunks, app.py:163-164: one fragment is handed to send_text,
\* which raises on an HTTP error (app.py:158); the exception ends the loop
SendTextChunk(raises) ==
  /\ k_pc = "loop"
  /\ k_who = "app"
  /\ LET chunks == Chunks(k_body, APP_CHUNK_SIZE)
     IN  /\ k_handed' = Append(k_handed, chunks[k_j])
         /\ k_pc' = IF raises THEN "raised"
                    ELSE IF k_j = Len(chunks) THEN "done" ELSE "loop"
         /\ k_j' = IF raises THEN k_j ELSE k_j + 1
  /\ UNCHANGED <<k_who, k_body, k_ok_all>>
  /\ chk_frame

\* webhook, bot.py:292-295: one fragment is handed to enviar_whatsapp, which
\* returns whether it was sent
WebhookSendPart(ok) ==
  /\ k_pc = "loop"
  /\ k_who = "bot"
  /\ LET chunks == Chunks(k_body, BOT_CHUNK)
     IN  /\ k_handed' = Append(k_handed, chunks[k_j])
         /\ k_pc' = IF k_j = Len(chunks) THEN "done" ELSE "loop"
  /\ k_j' = k_j + 1
  /\ k_ok_all' = (k_ok_all /\ ok)
  /\ UNCHANGED <<k_who, k_body>>
  /\ chk_frame

ChunkNext ==
  \/ ChunksEnter
  \/ \E raises \in BOOLEAN : SendTextChunk(raises)
  \/ \E ok \in BOOLEAN : WebhookSendPart(ok)

SpecChunks == ChunkInit /\ [][ChunkNext]_vars

\* every fragment handed over has at least one character and at most the
\* chunk size, and the fragments are consecutive pieces of the answer from
\* its start
FragmentsInOrder ==
  /\ \A j \in 1..Len(k_handed) :
        Len(k_handed[j]) >= 1 /\ Len(k_handed[j]) <= ChunkSize(k_who)
  /\ Len(Flatten(k_handed)) <= Len(k_body)
  /\ Flatten(k_handed) = SubSeq(k_body, 1, Len(Flatten(k_handed)))

-----------------------------------------------------------------------------
(* topk_client.py and llm_client.py: the score of _normalize_item          *)

\* the keys _normalize_item looks at, in the order of topk_client.py:149
ScoreKeys == <<"score", "text_score", "sim", "similarity", "_score">>

\* None, and a number
PyNone == [kind |-> "None", v |-> 0]
Num(n) == [kind |-> "num", v |-> n]

\* the raw records: each key is absent, or holds None, 0, or a number that
\* tells the keys apart
RawItems ==
  { [n \in S |-> f[n]] :
      S \in SUBSET (1..Len(ScoreKeys)),
      f \in [1..Len(ScoreKeys) -> {"None", "zero", "number"}] }

\* item.get(key)
Get(item, key) ==
  LET n == CHOOSE i \in 1..Len(ScoreKeys) : ScoreKeys[i] = key
  IN  IF n \notin DOMAIN item \/ item[n] = "None" THEN PyNone
      ELSE IF item[n] = "zero" THEN Num(0)
      ELSE Num(n)

\* mutant: only None gives way to the next operand
py_or_NotNone(a, b) == IF a.kind = "num" THEN a ELSE b

\* a or b
py_or(a, b) == IF a.kind = "num" /\ a.v # 0 THEN a ELSE b

\* topk_client.py:149
topk_score(item) ==
  py_or(Get(item, "score"), py_or(Get(item, "text_score"), py_or(Get(item, "sim"),
    py_or(Get(item, "similarity"), Get(item, "_score")))))

\* llm_client.py:133
llm_score(item) ==
  py_or(Get(item, "score"), py_or(Get(item, "text_score"), Get(item, "sim")))

ScoreInit ==
  /\ AppIdle /\ BotIdle /\ DedupeIdle /\ SearchIdle /\ CmpIdle /\ RddIdle
  /\ ThrIdle /\ MemIdle /\ PrmIdle /\ SynIdle /\ SendIdle /\ ChkIdle
  /\ n_item \in RawItems
  /\ n_score = <<>>
  /\ n_pc = "raw"

\* _normalize_item, topk_client.py:135-154 and llm_client.py:121-137: the
\* entry "score"
NormalizeScore ==
  /\ n_pc = "raw"
  /\ n_score' = [topk_client |-> topk_score(n_item), llm_client |-> llm_score(n_item)]
  /\ n_pc' = "normalized"
  /\ UNCHANGED n_item
  /\ nrm_frame

ScoreNext == NormalizeScore

SpecScore == ScoreInit /\ [][ScoreNext]_vars

\* the value the raw record holds under its n-th key
Held(n) == Get(n_item, ScoreKeys[n])

\* C22 as stated: the score of a normalized hit is the value stored under the
\* first key, in the order score, text_score, sim, similarity, _score, that
\* is present in the raw record (whatever that value is, including 0), and it
\* is null only when none of these keys is present.
C22_ScoreIsFirstPresentKey ==
  n_pc = "normalized" =>
    \A client \in {"topk_client", "llm_client"} :
      /\ \A n \in DOMAIN n_item :
           (\A m \in DOMAIN n_item : m >= n) => n_score[client] = Held(n)
      /\ n_score[client] = PyNone => DOMAIN n_item = {}

\* the first of the keys 1..last whose value is neither None nor 0, if any
FirstTruthy(last) ==
  { n \in 1..last : /\ Held(n).kind = "num" /\ Held(n).v # 0
                    /\ \A m \in 1..(n - 1) : Held(m) \in {PyNone, Num(0)} }

\* C22, amended: the score is the value under the first key, in the order
\* score, text_score, sim, similarity, _score (llm_client.py: score,
\* text_score, sim only), whose value is neither null nor 0; if there is no
\* such key it is what the record holds under the last key of the chain
\* (0 or null), and null when that key is absent.
C22_ScoreIsFirstTruthyKey ==
  n_pc = "normalized" =>
    /\ \A n \in FirstTruthy(5) : n_score.topk_client = Held(n)
    /\ FirstTruthy(5) = {} => n_score.topk_client = Held(5)
    /\ \A n \in FirstTruthy(3) : n_score.llm_client = Held(n)
    /\ FirstTruthy(3) = {} => n_score.llm_client = Held(3)

\* a record with score 0 and a text_score: both clients give the text_score
C22_Witness ==
  /\ n_pc = "normalized"
  /\ DOMAIN n_item = {1, 2}
  /\ Held(1) = Num(0)
  /\ Held(2) = Num(2)
  /\ n_score.topk_client = Num(2)
  /\ n_score.llm_client = Num(2)

-----------------------------------------------------------------------------
(* topk_client.py: the semantic fallback of the hybrid query               *)

\* the queries of one strategy sent for a collection
StrategyCalls(name, strategy) ==
  SelectSeq(s_calls, LAMBDA c : c.col = name /\ c.strategy = strategy)

\* C23 as stated: for each collection, whenever the hybrid query fails, by
\* raising or by yielding nothing, a pure semantic query is executed on that
\* collection, so a collection is reported empty only after the semantic query
\* also returned nothing.
C23_SemanticFallbackWheneverHybridFails ==
  s_backend.client = "topk_client" =>
    \A j \in 1..Len(Searched) :
      LET name == Searched[j]
          hyb  == StrategyCalls(name, "hybrid")
          sem  == StrategyCalls(name, "semantic")
      IN  (hyb # <<>> /\ (hyb[1].answer.raised \/ hyb[1].answer.rows = <<>>)) =>
            /\ sem # <<>>
            /\ name \notin DOMAIN s_output =>
                 UsableRows(sem[1].answer.rows) = <<>>

\* C23, what the code does: for each collection, the pure semantic query is executed
\* exactly when the hybrid query raised, and then a collection is left out of
\* the result only if the semantic query raised or returned no usable hit; a
\* hybrid query that yields nothing without raising is followed by no other
\* query and its collection is left out of the result.
C23_SemanticFallbackOnlyWhenHybridRaises ==
  s_backend.client = "topk_client" =>
    \A j \in 1..Len(Searched) :
      LET name == Searched[j]
          hyb  == StrategyCalls(name, "hybrid")
          sem  == StrategyCalls(name, "semantic")
      IN  /\ Len(hyb) <= 1 /\ Len(sem) <= 1
          /\ sem # <<>> <=> (hyb # <<>> /\ hyb[1].answer.raised)
          /\ (sem # <<>> /\ name \notin DOMAIN s_output) =>
               UsableRows(sem[1].answer.rows) = <<>>
          /\ (sem # <<>> /\ UsableRows(sem[1].answer.rows) # <<>>) =>
               name \in DOMAIN s_output
          /\ (hyb # <<>> /\ ~hyb[1].answer.raised /\ hyb[1].answer.rows = <<>>) =>
               name \notin DOMAIN s_output

\* on one collection the hybrid query raised and the semantic query gave the
\* hits of the result; on the other the hybrid query yielded nothing and no
\* semantic query followed
C23_Witness ==
  /\ s_backend.client = "topk_client"
  /\ s_pc = "done"
  /\ Len(s_calls) = 3
  /\ s_calls[1].strategy = "hybrid" /\ s_calls[1].answer.raised
  /\ s_calls[2].strategy = "semantic" /\ s_calls[2].col = s_calls[1].col
  /\ UsableRows(s_calls[2].answer.rows) # <<>>
  /\ s_calls[3].strategy = "hybrid" /\ s_calls[3].col # s_calls[1].col
  /\ s_calls[3].answer = [raised |-> FALSE, rows |-> <<>>]
  /\ DOMAIN s_output = {s_calls[1].col}

-----------------------------------------------------------------------------
(* app.py: the order of the fallbacks of answer_with_autorag               *)

\* the position of the first call of a kind in the log, 0 when there is none
FirstCall(kind) ==
  IF \E i \in 1..Len(calls) : calls[i] = kind
  THEN CHOOSE i \in 1..Len(calls) : calls[i] = kind /\ \A j \in 1..(i - 1) : calls[j] # kind
  ELSE 0

\* ask_ai_with_context has been invoked: it is about to run, or it returned
\* for lack of a key, or it went on to retrieve()
LocalRagInvoked ==
  pc = "ask_ai_with_context" \/ producer = "no_key" \/ FirstCall("retrieve") > 0

\* autorag_search returned at least one snippet
AutoragGaveSnippets ==
  FirstCall("autorag_search") > 0 /\ accepted # <<>> /\ accepted[1].origin = "autorag"

\* C24: in answer_with_autorag with search mode the fallbacks are tried in a
\* fixed order: ask_ai_with_context is invoked only if AutoRAG is not
\* configured, or an AutoRAG call raised, or autorag_search returned no snippet
\* and the ai-search fallback then returned empty text or raised; when
\* autorag_search returns at least one snippet the answer comes from
\* generate_with_openai and neither ai-search nor the local RAG is invoked.
C24_FallbacksInFixedOrder ==
  cfg.mode = "search" =>
    /\ LocalRagInvoked =>
         \/ ~cfg.autorag /\ FirstCall("autorag_search") = 0 /\ FirstCall("ai_search") = 0
         \* autorag_search raised: nothing was accepted, ai-search was not tried
         \/ /\ cfg.autorag
            /\ FirstCall("autorag_search") > 0
            /\ FirstCall("ai_search") = 0
            /\ ~AutoragGaveSnippets
         \* no snippet, and the ai-search fallback gave no text
         \/ /\ cfg.autorag
            /\ FirstCall("autorag_search") > 0
            /\ FirstCall("ai_search") > FirstCall("autorag_search")
            /\ ~AutoragGaveSnippets
            /\ producer # "ai_search_fallback"
            /\ FirstCall("retrieve") > 0 => FirstCall("retrieve") > FirstCall("ai_search")
    /\ AutoragGaveSnippets =>
         /\ FirstCall("ai_search") = 0
         /\ ~LocalRagInvoked
         /\ pc \in {"generate_with_openai", "deliver", "done"}
         /\ Returned => producer \in {"generate", "gen_no_key", "gen_fail"}
    /\ producer = "ai_search_fallback" =>
         /\ FirstCall("ai_search") > FirstCall("autorag_search")
         /\ FirstCall("autorag_search") > 0
         /\ ~LocalRagInvoked

\* search mode with AutoRAG configured: autorag_search gave no snippet, the
\* ai-search fallback gave no text, and the local RAG ran after both
C24_Witness ==
  /\ cfg.autorag /\ cfg.mode = "search"
  /\ Len(calls) >= 4
  /\ calls[2] = "autorag_search"
  /\ calls[3] = "ai_search"
  /\ calls[4] = "retrieve"
  /\ Returned

-----------------------------------------------------------------------------
(* app.py: compact_whatsapp on long texts                                  *)

\* how far past the limit of lines the texts go
MaxOver == 2

\* one line of an answer: of a list ("- aa") or of running text ("aaa")
AnswerLine(is_list, width) ==
  (IF is_list THEN <<"-", " ">> ELSE <<>>) \o [i \in 1..width |-> "a"]

\* the answers: one line, or around the two limits of lines; short and long
\* lines; lines of a list or not; one line break between the lines, or three
CompactTexts ==
  { Join([i \in 1..gap |-> "\n"], [i \in 1..n |-> AnswerLine(is_list, width)]) :
      n \in {1} \cup { limit + d : limit \in {TEXT_MAX_LINES, LIST_MAX_LINES},
                                   d \in (0 - 1)..MaxOver },
      width \in {1, 20, 120},
      is_list \in BOOLEAN,
      gap \in {1, 3} }

CompactInit ==
  /\ AppIdle /\ BotIdle /\ DedupeIdle /\ SearchIdle /\ RddIdle
  /\ ThrIdle /\ MemIdle /\ PrmIdle /\ SynIdle /\ SendIdle /\ ChkIdle /\ NrmIdle
  /\ c_text \in CompactTexts
  /\ c_out = <<>>
  /\ c_pc = "text"

\* compact_whatsapp, app.py:186-205
CompactWhatsapp ==
  /\ c_pc = "text"
  /\ c_out' = compact_whatsapp(c_text)
  /\ c_pc' = "compacted"
  /\ UNCHANGED c_text
  /\ cmp_frame

CompactNext == CompactWhatsapp

SpecCompact == CompactInit /\ [][CompactNext]_vars

\* C25 as stated: for every non-empty text, the output of compact_whatsapp has
\* at most 8 lines and at most 900 characters when the text is not a list, and
\* at most 60 lines and at most 3000 characters when it is a list.
C25_CompactWithinLimits ==
  (c_pc = "compacted" /\ c_text # <<>>) =>
    IF looks_like_list(c_text)
    THEN Len(SplitLines(c_out)) <= 60 /\ Len(c_out) <= 3000
    ELSE Len(SplitLines(c_out)) <= 8 /\ Len(c_out) <= 900

\* C25, what the code does: for every non-empty text, the output of compact_whatsapp has
\* at most 9 lines (the first 8 lines of the text and a line holding the
\* ellipsis) and at most 900 characters when the text is not a list, and at
\* most 61 lines (60 and the ellipsis) and at most 3000 characters when it is
\* a list.
C25_CompactWithinLimitsPlusEllipsis ==
  (c_pc = "compacted" /\ c_text # <<>>) =>
    LET lines == SplitLines(c_out)
        limit == IF looks_like_list(c_text) THEN 60 ELSE 8
    IN  /\ Len(lines) <= limit + 1
        /\ Len(lines) = limit + 1 => lines[limit + 1] = <<"...">>
        /\ Len(c_out) <= (IF looks_like_list(c_text) THEN 3000 ELSE 900)

\* a text of nine short lines that is not a list: eight lines and the
\* ellipsis come out
C25_Witness ==
  /\ c_pc = "compacted"
  /\ ~looks_like_list(c_text)
  /\ Len(SplitLines(c_text)) = 9
  /\ Len(c_text) < 900
  /\ Len(SplitLines(c_out)) = 9
  /\ SplitLines(c_out)[9] = <<"...">>

-----------------------------------------------------------------------------
(* dedup.py and memory.py: Dedup.seen on Redis                             *)

\* the concurrent calls of seen
MaxCallers == 2
Callers == 1..MaxCallers

\* ttl=3600, dedup.py:9 and memory.py:63
DEFAULT_TTL == 3600

\* the message ids of the calls ("" is a missing id) and the keys they make
SeenIds == {"", "a", "b"}
DedupKeys == SeenIds \ {""}

NoKey == [present |-> FALSE, ttl |-> -1]

\* mutant: SET, which writes the key whether it exists or not
setnx_Set(keys, key) ==
  [added |-> TRUE, keys |-> [keys EXCEPT ![key] = [present |-> TRUE, ttl |-> -1]]]

\* SETNX key "1": creates the key, without a TTL, only if it does not exist
setnx(keys, key) ==
  IF keys[key].present
  THEN [added |-> FALSE, keys |-> keys]
  ELSE [added |-> TRUE, keys |-> [keys EXCEPT ![key] = [present |-> TRUE, ttl |-> -1]]]

\* EXPIRE key ttl: sets the time to live of an existing key; a time that is
\* not positive deletes the key
expire(keys, key, ttl) ==
  IF ~keys[key].present THEN keys
  ELSE IF ttl <= 0 THEN [keys EXCEPT ![key] = NoKey]
  ELSE [keys EXCEPT ![key] = [present |-> TRUE, ttl |-> ttl]]

DedupSeenInit ==
  /\ AppIdle /\ BotIdle /\ DedupeIdle /\ SearchIdle
  /\ ThrIdle /\ MemIdle /\ PrmIdle /\ SynIdle /\ SendIdle /\ ChkIdle /\ NrmIdle /\ CmpIdle
  /\ r_impl \in {"dedup.py", "memory.py"}
  /\ r_ttl \in {0, DEFAULT_TTL}
  /\ r_keys = [k \in DedupKeys |-> NoKey]
  /\ r_expired = [k \in DedupKeys |-> 0]
  /\ r_call = [c \in Callers |-> [id |-> "", pc |-> "idle", added |-> FALSE, result |-> "none"]]

\* seen, dedup.py:12-19 and memory.py:65-68: the check of the id and SETNX;
\* memory.py returns here when self.ttl is not positive
DedupSeenSetnx(c, msg_id) ==
  /\ r_call[c].pc = "idle"
  /\ IF msg_id = ""
     THEN /\ r_call' = [r_call EXCEPT ![c] = [id |-> msg_id, pc |-> "returned",
                                              added |-> FALSE, result |-> "False"]]
          /\ UNCHANGED r_keys
     ELSE LET s == setnx(r_keys, msg_id)
          IN  /\ r_keys' = s.keys
              /\ r_call' = [r_call EXCEPT ![c] =
                   IF ~s.added
                   THEN [id |-> msg_id, pc |-> "returned", added |-> FALSE, result |-> "True"]
                   ELSE IF r_impl = "memory.py" /\ ~(r_ttl > 0)
                   THEN [id |-> msg_id, pc |-> "returned", added |-> TRUE, result |-> "False"]
                   ELSE [id |-> msg_id, pc |-> "expire", added |-> TRUE, result |-> "none"]]
  /\ UNCHANGED <<r_impl, r_ttl, r_expired>>
  /\ rdd_frame

\* seen, dedup.py:21-23 and memory.py:69-71: EXPIRE, a second command, which
\* raises when Redis cannot be reached; the exception leaves seen
DedupSeenExpire(c, raises) ==
  /\ r_call[c].pc = "expire"
  /\ IF raises
     THEN /\ r_call' = [r_call EXCEPT ![c].pc = "raised"]
          /\ UNCHANGED <<r_keys, r_expired>>
     ELSE /\ r_keys' = expire(r_keys, r_call[c].id, r_ttl)
          /\ r_expired' = [r_expired EXCEPT ![r_call[c].id] =
                             IF r_keys'[r_call[c].id].present THEN @ ELSE @ + 1]
          /\ r_call' = [r_call EXCEPT ![c].pc = "returned", ![c].result = "False"]
  /\ UNCHANGED <<r_impl, r_ttl>>
  /\ rdd_frame

\* Redis: half the default time to live passes; a key whose time is over goes
RedisTick ==
  /\ \E k \in DedupKeys : r_keys[k].present /\ r_keys[k].ttl > 0
  /\ LET left(k) == r_keys[k].ttl - (DEFAULT_TTL \div 2)
     IN  /\ r_keys' = [k \in DedupKeys |->
                         IF r_keys[k].present /\ r_keys[k].ttl > 0
                         THEN IF left(k) > 0 THEN [present |-> TRUE, ttl |-> left(k)] ELSE NoKey
                         ELSE r_keys[k]]
         /\ r_expired' = [k \in DedupKeys |->
                         IF r_keys[k].present /\ r_keys[k].ttl > 0 /\ ~(left(k) > 0)
                         THEN r_expired[k] + 1 ELSE r_expired[k]]
  /\ UNCHANGED <<r_impl, r_ttl, r_call>>
  /\ rdd_frame

DedupSeenNext ==
  \/ \E c \in Callers, msg_id \in SeenIds : DedupSeenSetnx(c, msg_id)
  \/ \E c \in Callers, raises \in BOOLEAN : DedupSeenExpire(c, raises)
  \/ RedisTick

SpecDedupSeen == DedupSeenInit /\ [][DedupSeenNext]_vars /\ WF_vars(RedisTick)

\* the calls made with an id that have passed SETNX, those that created the
\* key, and whether all of them are over
CallsOf(k) == {c \in Callers : r_call[c].id = k /\ r_call[c].pc # "idle"}
CreatorsOf(k) == {c \in CallsOf(k) : r_call[c].added}
AllOver(k) == \A c \in CallsOf(k) : r_call[c].pc \in {"returned", "raised"}

\* C26 as stated: for any interleaving of concurrent seen(id) calls with the
\* same non-empty id within the TTL, exactly one call returns False and all
\* others return True; and a key created by seen is never left without a TTL.
C26_OneFalseAndKeyAlwaysExpires ==
  \A k \in DedupKeys :
    /\ (r_expired[k] = 0 /\ CallsOf(k) # {} /\ AllOver(k)) =>
         /\ Cardinality({c \in CallsOf(k) : r_call[c].result = "False"}) = 1
         /\ \A c \in CallsOf(k) : r_call[c].result \in {"False", "True"}
    /\ (r_keys[k].present /\ r_keys[k].ttl = -1) =>
         \E c \in CreatorsOf(k) : r_call[c].pc = "expire"

\* what holds in every state
DedupSeenSafe ==
  \A k \in DedupKeys :
    /\ Cardinality(CreatorsOf(k)) <= 1 + r_expired[k]
    /\ (r_expired[k] = 0 /\ CallsOf(k) # {}) => Cardinality(CreatorsOf(k)) = 1
    /\ \A c \in CallsOf(k) :
         /\ (r_call[c].pc = "returned" /\ r_call[c].added) => r_call[c].result = "False"
         /\ (r_call[c].pc = "returned" /\ ~r_call[c].added) => r_call[c].result = "True"
         /\ r_call[c].pc = "raised" => (r_call[c].added /\ r_call[c].result = "none")
    /\ (r_keys[k].present /\ r_keys[k].ttl = -1) =>
         \/ \E c \in CreatorsOf(k) : r_call[c].pc \in {"expire", "raised"}
         \/ r_impl = "memory.py" /\ r_ttl <= 0

\* C26, amended: for any interleaving of concurrent seen(id) calls with the
\* same non-empty id within the TTL, exactly one call creates the key; that
\* call returns False unless its EXPIRE raises, and all others return True. A
\* key is left without a TTL only when the EXPIRE of the call that created it
\* raised, or, in memory.py, when ttl is not positive; every key that has a
\* TTL eventually expires.
C26_OneCreatorAndTtlUnlessExpireSkipped ==
  /\ []DedupSeenSafe
  /\ \A k \in DedupKeys : (r_keys[k].present /\ r_keys[k].ttl > 0) ~> ~r_keys[k].present

\* two calls with the same id, both over: the first created the key and
\* returned False, the other returned True, and the key has its TTL
C26_Witness ==
  /\ r_call[1] = [id |-> "a", pc |-> "returned", added |-> TRUE, result |-> "False"]
  /\ r_call[2] = [id |-> "a", pc |-> "returned", added |-> FALSE, result |-> "True"]
  /\ r_keys["a"] = [present |-> TRUE, ttl |-> DEFAULT_TTL]
  /\ r_expired["a"] = 0

-----------------------------------------------------------------------------
(* bot.py: the two containers of _seen                                     *)

\* the set holds exactly the ids of the deque, which has no duplicate, and
\* neither holds more than _MAX_IDS ids
SeenContainersAgree ==
  /\ recent_ids_set = Range(recent_ids_q)
  /\ Cardinality(Range(recent_ids_q)) = Len(recent_ids_q)
  /\ Len(recent_ids_q) <= 200
  /\ Cardinality(recent_ids_set) <= 200

\* C27: after every call to _seen, the set _recent_ids_set contains exactly
\* the ids held in the deque _recent_ids_q, the deque holds no duplicate id,
\* and both hold at most 200 ids; a call with a missing or empty id returns
\* False (the delivery is not answered as a duplicate) and leaves both
\* unchanged.
C27_SetMatchesDeque ==
  /\ []SeenContainersAgree
  /\ [][(\E outcome \in {"ok", "not_ok", "error"} : Webhook(NoId, outcome)) =>
          /\ UNCHANGED <<recent_ids_q, recent_ids_set>>
          /\ last_resp' # "dedup"]_vars

\* the deque is full and has dropped the first id, which has left the set too
C27_Witness ==
  /\ Len(recent_ids_q) = 200
  /\ recent_ids_q[1] = 2
  /\ recent_ids_q[200] = 201
  /\ 1 \notin recent_ids_set
  /\ last_resp = "ok"

-----------------------------------------------------------------------------
(* bot.py: a message whose processing failed                               *)

\* a delivery of the message with this id
Delivery(msg_id) == \E outcome \in {"ok", "not_ok", "error"} : Webhook(msg_id, outcome)

\* C28 as stated: in bot.py's webhook a message id is recorded as seen before
\* the message is processed, so if processing then fails (the webhook answers
\* 500), a redelivery of the same id is answered as a duplicate and the
\* message is never processed or answered.
C28_FailedMessageNeverProcessedAgain ==
  [][\A msg_id \in DeliveredIds \ {NoId} :
       /\ Delivery(msg_id) => msg_id \in recent_ids_set'
       /\ (Delivery(msg_id) /\ msg_id \in failed) =>
            (last_resp' = "dedup" /\ processed' = processed)]_vars

\* C28, amended: in bot.py's webhook a message id is recorded as seen before
\* the message is processed, so if processing then fails (the webhook answers
\* 500), a redelivery of the same id is answered as a duplicate and the
\* message is not processed or answered, as long as its id is among the last
\* 200 ids recorded; a redelivery that comes after 200 other new ids is
\* processed.
C28_FailedMessageNotProcessedWithinWindow ==
  [][\A msg_id \in DeliveredIds \ {NoId} :
       /\ Delivery(msg_id) => msg_id \in recent_ids_set'
       /\ (Delivery(msg_id) /\ msg_id \in failed /\ msg_id \in recent_ids_set) =>
            (last_resp' = "dedup" /\ processed' = processed)
       /\ (Delivery(msg_id) /\ msg_id \in failed /\ msg_id \notin recent_ids_set) =>
            (last_resp' # "dedup" /\ processed' = Append(processed, msg_id)
               /\ Len(processed) >= MAX_IDS)]_vars

\* the processing of message 1 raised, and its redelivery was answered as a
\* duplicate
C28_Witness ==
  /\ failed = {1}
  /\ processed = <<1>>
  /\ recent_ids_set = {1}
  /\ last_resp = "dedup"

-----------------------------------------------------------------------------
(* bot.py: the end of enviar_whatsapp                                      *)

\* the i-th attempt got a 2xx status
Got2xx(i) == ~w_log[i].response.raised /\ w_log[i].response.status \in 200..299

\* the i-th attempt got a status that is not tried again
GotFinal(i) ==
  /\ ~w_log[i].response.raised
  /\ w_log[i].response.status \notin {429, 500, 502, 503, 504}

\* C29: enviar_whatsapp always terminates after at most max_retries POST
\* attempts; it returns True exactly when one attempt received a 2xx status,
\* makes no further attempt after a 2xx or after a non-retryable status (which
\* returns False at once), and returns False when all attempts are used up.
C29_TerminatesWithinMaxRetries ==
  /\ Len(w_log) <= w_max_retries
  /\ w_pc = "post" => (w_attempt = Len(w_log) + 1 /\ w_attempt <= w_max_retries)
  /\ w_pc = "returned" =>
       /\ w_result \in {"True", "False"}
       /\ w_result = "True" <=> \E i \in 1..Len(w_log) : Got2xx(i)
  /\ \A i \in 1..Len(w_log) :
       GotFinal(i) =>
         /\ i = Len(w_log)
         /\ w_pc = "returned"
         /\ w_result = (IF Got2xx(i) THEN "True" ELSE "False")
  /\ (Len(w_log) = w_max_retries /\ ~Got2xx(w_max_retries)) =>
       (w_pc = "returned" /\ w_result = "False")

\* three attempts allowed: a network error, a 503, and then a 2xx, which ends
\* the send with True
C29_Witness ==
  /\ w_max_retries = 3
  /\ Len(w_log) = 3
  /\ w_log[1].response.raised
  /\ w_log[2].response.status = 503
  /\ Got2xx(3)
  /\ w_pc = "returned"
  /\ w_result = "True"

====
